---- MODULE Spec2Model ----
(***************************************************************************)
(* Model of the attendance dashboard's report views:                       *)
(*   HoursCalendarView  (src/src/components/admin/HoursCalendarView.tsx)   *)
(*   DailyHoursGrid     (src/src/components/admin/DailyHoursGrid.tsx)      *)
(*   AttendanceReports  (same file, lines 429 onwards)                     *)
(*                                                                         *)
(* Units.  A time of day "HH:mm" is its minute of the day, 0..1439.  A     *)
(* timestamp (waktu, clock_out_time) is its local minute counted from      *)
(* 2026-01-01 00:00, a calendar day is its day number counted from         *)
(* 2026-01-01 (day 0, a Thursday).  An unrounded number of hours h is kept *)
(* as the integer 60*h (minutes); a number rounded to 2 decimals is kept   *)
(* as the integer 100*h (hundredths).                                      *)
(***************************************************************************)
EXTENDS Integers, Sequences, FiniteSets, TLC

VARIABLES
    view,            \* which component the behaviour is about
    mounted,         \* TRUE once the component's mount effects have run
    db,              \* rows of table absensi, ordered by waktu
    opsLeft,         \* user interactions still allowed (bounds the behaviour)
    pending,         \* queries in flight, in the order they were issued
    selectedUserId,  \* prop of HoursCalendarView and DailyHoursGrid
    currentMonth,    \* useState of HoursCalendarView / DailyHoursGrid
    selectedUser,    \* useState of HoursCalendarView
    users,           \* useState of HoursCalendarView / AttendanceReports
    loading,         \* useState of each view
    calendarData,    \* useState of HoursCalendarView
    gridData,        \* useState of DailyHoursGrid
    workingDays,     \* useState of DailyHoursGrid
    attendance,      \* useState of AttendanceReports
    hoursSummary,    \* useState of AttendanceReports
    filters,         \* useState of AttendanceReports
    lastArrived,     \* history: the absensi query whose data arrived last
    hd,              \* inputs and results of the calculateHoursDifference harness
    isLoading,       \* useState of Auth
    open,            \* useState of MakeupRequestDialog
    formData,        \* useState of MakeupRequestDialog
    makeupRequests,  \* rows of table makeup_requests
    download,        \* the CSV file the last export handed to the browser
    toasts,          \* toast() calls so far, counted by variant
    failedCalls,     \* history: remote calls that have failed so far
    onSuccessCalls   \* history: calls of MakeupRequestDialog's onSuccess prop

vars == <<view, mounted, db, opsLeft, pending, selectedUserId, currentMonth,
          selectedUser, users, loading, calendarData, gridData, workingDays,
          attendance, hoursSummary, filters, lastArrived, hd, isLoading, open,
          formData, makeupRequests, download, toasts, failedCalls,
          onSuccessCalls>>

\* the state of the Auth page and of MakeupRequestDialog
pageVars == <<isLoading, open, formData, makeupRequests, onSuccessCalls>>

\* the state of the report views
reportVars == <<selectedUserId, currentMonth, selectedUser, users, calendarData,
                gridData, workingDays, attendance, hoursSummary, filters,
                lastArrived>>

-----------------------------------------------------------------------------
(* Bounds *)

MaxRecords == 2
MaxOps == 1

Null == 0 - 1

\* the months the views can show: February and March 2026
Months == {1, 2}

\* times of day "HH:mm": every quarter of an hour, and 09:05 and 16:40
TimesOfDay == {t \in 0..(24 * 60 - 1) : t % 15 = 0} \cup {9 * 60 + 5, 16 * 60 + 40}

Max(a, b) == IF a >= b THEN a ELSE b

-----------------------------------------------------------------------------
(* Calendar arithmetic of date-fns over the year 2026 *)

MinutesPerDay == 24 * 60

\* days of the months January..December 2026
MonthLengths == <<31, 28, 31, 30, 31, 30, 31, 31, 30, 31, 30, 31>>

\* month index 0 = January 2026
RECURSIVE MonthStartDay(_)
MonthStartDay(m) == IF m = 0 THEN 0 ELSE MonthStartDay(m - 1) + MonthLengths[m]

\* startOfMonth / endOfMonth, as day numbers
startOfMonth(m) == MonthStartDay(m)
endOfMonth(m) == MonthStartDay(m) + MonthLengths[m + 1] - 1

\* getDay: 0 = Sunday .. 6 = Saturday; day 0 is a Thursday
getDay(d) == (d + 4) % 7

isWeekend(d) == getDay(d) = 0 \/ getDay(d) = 6

\* startOfWeek / endOfWeek with the default weekStartsOn = 0 (Sunday)
startOfWeek(d) == d - getDay(d)
endOfWeek(d) == d + (6 - getDay(d))

\* eachDayOfInterval({start, end}) as an ascending sequence of days
eachDayOfInterval(start, end) == [i \in 1..(end - start + 1) |-> start + i - 1]

isSameMonth(d, m) == startOfMonth(m) <= d /\ d <= endOfMonth(m)

\* format(new Date(ts), 'yyyy-MM-dd'): the local calendar day of a timestamp
FormatDate(ts) == ts \div MinutesPerDay

\* format(new Date(ts), 'HH:mm'): the local time of day of a timestamp
FormatHHmm(ts) == ts % MinutesPerDay

Round2Truncating(minutes) == (10 * minutes) \div 6

\* Math.round(x * 100) / 100 of x = minutes/60 hours, for minutes >= 0, in
\* hundredths: floor(100 * minutes / 60 + 1/2)
Round2(minutes) == (10 * minutes + 3) \div 6

-----------------------------------------------------------------------------
(* The tables the views query *)

\* table profiles, rows with role = 'user', ordered by name
Profiles ==
    <<[id |-> "u1", name |-> "Ani"], [id |-> "u2", name |-> "Budi \"Bud\", S.Kom"]>>

UserIds == {Profiles[i].id : i \in 1..Len(Profiles)}

\* the join profiles:user_id (name)
ProfileName(userId) ==
    LET hit == {i \in 1..Len(Profiles) : Profiles[i].id = userId}
    IN IF hit = {} THEN "" ELSE Profiles[CHOOSE i \in hit : TRUE].name

\* the join shift:shift_id of a row without a shift reference (null)
NoShift == [id |-> 0, jam_masuk |-> Null, jam_keluar |-> Null]

\* rows of table shift: 09:00-17:00, the overnight 22:00-06:00, a shift
\* whose end equals its start, and 09:00-16:20
Shift9to17 == [id |-> 1, jam_masuk |-> 9 * 60, jam_keluar |-> 17 * 60]
ShiftNight == [id |-> 2, jam_masuk |-> 22 * 60, jam_keluar |-> 6 * 60]
ShiftEmpty == [id |-> 3, jam_masuk |-> 9 * 60, jam_keluar |-> 9 * 60]
ShiftShort == [id |-> 4, jam_masuk |-> 9 * 60, jam_keluar |-> 16 * 60 + 20]

\* clock-in times: Mon 2026-02-02 09:05, Tue 2026-02-03 22:00, Sat 2026-02-07 09:05
ClockIns == {32 * MinutesPerDay + 9 * 60 + 5,
             33 * MinutesPerDay + 22 * 60,
             37 * MinutesPerDay + 9 * 60 + 5}

\* what a row holds besides its user and clock-in: the shift it refers to and
\* the minutes from clock-in to clock-out (Null: not clocked out)
HourCases == {[shift |-> NoShift,    span |-> 7 * 60 + 35],
              [shift |-> Shift9to17, span |-> 7 * 60 + 35],
              [shift |-> Shift9to17, span |-> Null],
              [shift |-> ShiftNight, span |-> 8 * 60],
              [shift |-> ShiftEmpty, span |-> Null],
              [shift |-> ShiftShort, span |-> 7 * 60 + 35]}

Row(u, w, c) ==
    [user_id |-> u, waktu |-> w,
     clock_out_time |-> IF c.span = Null THEN Null ELSE w + c.span,
     shift |-> c.shift, status |-> "HADIR", metode |-> "absen"]

\* the rows table absensi may hold
Records == {Row(u, w, c) : u \in UserIds, w \in ClockIns, c \in HourCases}

\* the contents of table absensi: at most MaxRecords rows, kept in the order
\* of waktu (every query of the views orders by waktu)
RECURSIVE SortedSeqs(_)
SortedSeqs(n) ==
    IF n = 0 THEN {<<>>}
    ELSE LET shorter == SortedSeqs(n - 1)
         IN shorter \cup
            {Append(q, r) : q \in {x \in shorter : Len(x) = n - 1}, r \in Records}

Tables == {q \in SortedSeqs(MaxRecords) :
              \A i \in 1..(Len(q) - 1) : q[i].waktu <= q[i + 1].waktu}

-----------------------------------------------------------------------------
(* calculateHoursDifference and the Date objects it works on *)

\* new Date(`2000-01-01 ${time}`): the day of the month and the minute of the day
NewRefDate(time) == [date |-> 1, minutes |-> time]

\* Date.getTime(), in minutes from 2000-01-01 00:00
getTime(dt) == (dt.date - 1) * MinutesPerDay + dt.minutes

\* end.setDate(end.getDate() + 1)
setDate(dt, n) == [dt EXCEPT !.date = n]

calculateHoursDifferenceCalSameDay(startTime, endTime) ==
    getTime(NewRefDate(endTime)) - getTime(NewRefDate(startTime))

\* HoursCalendarView: result in minutes (hours = result / 60)
calculateHoursDifferenceCal(startTime, endTime) ==
    LET start == NewRefDate(startTime)
        end0 == NewRefDate(endTime)
        end == IF getTime(end0) < getTime(start)
               THEN setDate(end0, end0.date + 1) ELSE end0
    IN getTime(end) - getTime(start)

\* DailyHoursGrid
calculateHoursDifferenceGrid(startTime, endTime) ==
    LET start == NewRefDate(startTime)
        end0 == NewRefDate(endTime)
        end == IF getTime(end0) < getTime(start)
               THEN setDate(end0, end0.date + 1) ELSE end0
    IN getTime(end) - getTime(start)

\* AttendanceReports
calculateHoursDifferenceRep(startTime, endTime) ==
    LET start == NewRefDate(startTime)
        end0 == NewRefDate(endTime)
        end == IF getTime(end0) < getTime(start)
               THEN setDate(end0, end0.date + 1) ELSE end0
    IN getTime(end) - getTime(start)

\* record.shift && record.shift.jam_masuk && record.shift.jam_keluar
HasShift(record) ==
    /\ record.shift.id # 0
    /\ record.shift.jam_masuk # Null
    /\ record.shift.jam_keluar # Null

\* record.waktu && record.clock_out_time
HasClockOut(record) == record.waktu # Null /\ record.clock_out_time # Null

-----------------------------------------------------------------------------
(* Queries in flight *)

NoFilters == [startDate |-> 0, endDate |-> 0, userId |-> "", status |-> "",
              method |-> ""]

\* a query on table profiles; user is the id the query is narrowed to, or "all"
ProfilesQuery(user, month) ==
    [table |-> "profiles", user |-> user, month |-> month, flt |-> NoFilters,
     usersData |-> <<>>]

\* a query on table absensi issued by HoursCalendarView or DailyHoursGrid;
\* usersData is what the issuing call already holds (the users of fetchGridData)
AbsensiQuery(user, month, usersData) ==
    [table |-> "absensi", user |-> user, month |-> month, flt |-> NoFilters,
     usersData |-> usersData]

\* a query on table absensi issued by AttendanceReports
ReportQuery(flt) ==
    [table |-> "absensi", user |-> flt.userId, month |-> 0, flt |-> flt,
     usersData |-> <<>>]

\* no query
NoQuery ==
    [table |-> "", user |-> "", month |-> 0, flt |-> NoFilters, usersData |-> <<>>]

RemoveAt(q, i) == [j \in 1..(Len(q) - 1) |-> IF j < i THEN q[j] ELSE q[j + 1]]

\* .gte('waktu', monthStart.toISOString()).lte('waktu', monthEnd.toISOString())
InMonth(record, month) ==
    /\ record.waktu >= startOfMonth(month) * MinutesPerDay
    /\ record.waktu < (endOfMonth(month) + 1) * MinutesPerDay

-----------------------------------------------------------------------------
(* HoursCalendarView *)

\* the month's rows of one user, ordered by waktu
QueryCalendar(table, user, month) ==
    SelectSeq(table, LAMBDA record : record.user_id = user /\ InMonth(record, month))

RecordHoursCalElapsed(record) ==
    IF HasShift(record)
    THEN [expectedHours |->
              calculateHoursDifferenceCal(record.shift.jam_masuk,
                                          record.shift.jam_keluar),
          actualHours |->
              IF HasClockOut(record) THEN record.clock_out_time - record.waktu
              ELSE 0]
    ELSE [expectedHours |-> 0, actualHours |-> 0]

RecordHoursCalEstimated(record) ==
    IF HasShift(record)
    THEN LET expected == calculateHoursDifferenceCal(record.shift.jam_masuk,
                                                     record.shift.jam_keluar)
         IN [expectedHours |-> expected,
             actualHours |->
                 IF HasClockOut(record)
                 THEN calculateHoursDifferenceCal(FormatHHmm(record.waktu),
                                                  FormatHHmm(record.clock_out_time))
                 ELSE expected]
    ELSE [expectedHours |-> 0, actualHours |-> 0]

\* the body of the forEach over dayAttendance: what one record adds to
\* expectedHours and actualHours, in minutes
RecordHoursCal(record) ==
    IF HasShift(record)
    THEN [expectedHours |->
              calculateHoursDifferenceCal(record.shift.jam_masuk,
                                          record.shift.jam_keluar),
          actualHours |->
              IF HasClockOut(record)
              THEN calculateHoursDifferenceCal(FormatHHmm(record.waktu),
                                               FormatHHmm(record.clock_out_time))
              ELSE 0]
    ELSE [expectedHours |-> 0, actualHours |-> 0]

\* the forEach over dayAttendance: the sums of expected and actual hours
RECURSIVE DayHoursCal(_)
DayHoursCal(dayAttendance) ==
    IF dayAttendance = <<>> THEN [expectedHours |-> 0, actualHours |-> 0]
    ELSE LET acc == DayHoursCal(SubSeq(dayAttendance, 1, Len(dayAttendance) - 1))
             add == RecordHoursCal(dayAttendance[Len(dayAttendance)])
         IN [expectedHours |-> acc.expectedHours + add.expectedHours,
             actualHours |-> acc.actualHours + add.actualHours]

DayAttendanceCalAnyDate(attendanceData, date) == attendanceData

DayAttendanceCalDistinctShift(attendanceData, date) ==
    LET onDate == SelectSeq(attendanceData,
                            LAMBDA record : FormatDate(record.waktu) = date)
        first == {k \in DOMAIN onDate :
                     \A j \in 1..(k - 1) : onDate[j].shift.id # onDate[k].shift.id}
    IN IF first = DOMAIN onDate THEN onDate
       ELSE SubSeq(onDate, 1, 1)

DayAttendanceCalByClockOut(attendanceData, date) ==
    SelectSeq(attendanceData, LAMBDA record :
        FormatDate(IF record.clock_out_time # Null THEN record.clock_out_time
                   ELSE record.waktu) = date)

\* the records of attendanceData whose clock-in falls on the date
DayAttendanceCal(attendanceData, date) ==
    SelectSeq(attendanceData, LAMBDA record : FormatDate(record.waktu) = date)

MissingHoursCalAbs(expectedHours, actualHours) ==
    IF expectedHours >= actualHours THEN expectedHours - actualHours
    ELSE actualHours - expectedHours

\* Math.max(0, expectedHours - actualHours)
MissingHoursCal(expectedHours, actualHours) == Max(0, expectedHours - actualHours)

\* Math.max(0, actualHours - expectedHours)
OvertimeHoursCal(expectedHours, actualHours) == Max(0, actualHours - expectedHours)

DayStatusCalUnguarded(hasAttendance, missingHours, overtimeHours) ==
    IF missingHours > 0 THEN "missing"
    ELSE IF overtimeHours > 0 THEN "overtime"
    ELSE "complete"

\* let status = 'no-attendance'; if (hasAttendance) { ... }
DayStatusCal(hasAttendance, missingHours, overtimeHours) ==
    IF hasAttendance
    THEN IF missingHours > 0 THEN "missing"
         ELSE IF overtimeHours > 0 THEN "overtime"
         ELSE "complete"
    ELSE "no-attendance"

DayDataCalRoundedDifference(attendanceData, date) ==
    LET dayAttendance == DayAttendanceCal(attendanceData, date)
        h == DayHoursCal(dayAttendance)
        expectedHours == Round2(h.expectedHours)
        actualHours == Round2(h.actualHours)
        hasAttendance == Len(dayAttendance) > 0
    IN [date |-> date,
        expectedHours |-> expectedHours,
        actualHours |-> actualHours,
        missingHours |-> Max(0, expectedHours - actualHours),
        overtimeHours |-> Max(0, actualHours - expectedHours),
        hasAttendance |-> hasAttendance,
        status |-> DayStatusCal(hasAttendance,
                                MissingHoursCal(h.expectedHours, h.actualHours),
                                OvertimeHoursCal(h.expectedHours, h.actualHours)),
        attendanceRecords |-> dayAttendance]

\* the DayData of one calendar day
DayDataCal(attendanceData, date) ==
    LET dayAttendance == DayAttendanceCal(attendanceData, date)
        h == DayHoursCal(dayAttendance)
        missingHours == MissingHoursCal(h.expectedHours, h.actualHours)
        overtimeHours == OvertimeHoursCal(h.expectedHours, h.actualHours)
        hasAttendance == Len(dayAttendance) > 0
    IN [date |-> date,
        expectedHours |-> Round2(h.expectedHours),
        actualHours |-> Round2(h.actualHours),
        missingHours |-> Round2(missingHours),
        overtimeHours |-> Round2(overtimeHours),
        hasAttendance |-> hasAttendance,
        status |-> DayStatusCal(hasAttendance, missingHours, overtimeHours),
        attendanceRecords |-> dayAttendance]

\* the calendar grid: the weeks that hold the month, Sunday to Saturday
CalendarDays(month) ==
    eachDayOfInterval(startOfWeek(startOfMonth(month)), endOfWeek(endOfMonth(month)))

ProcessCalendarData(attendanceData, month) ==
    LET calendarDays == CalendarDays(month)
    IN [i \in 1..Len(calendarDays) |-> DayDataCal(attendanceData, calendarDays[i])]

\* the reduce over the days of currentMonth that have attendance, in hundredths
RECURSIVE MonthlyStatsOf(_)
MonthlyStatsOf(days) ==
    IF days = <<>>
    THEN [totalExpected |-> 0, totalActual |-> 0, totalMissing |-> 0,
          totalOvertime |-> 0, workingDays |-> 0]
    ELSE LET day == days[Len(days)]
             acc == MonthlyStatsOf(SubSeq(days, 1, Len(days) - 1))
         IN [totalExpected |-> acc.totalExpected + day.expectedHours,
             totalActual |-> acc.totalActual + day.actualHours,
             totalMissing |-> acc.totalMissing + day.missingHours,
             totalOvertime |-> acc.totalOvertime + day.overtimeHours,
             workingDays |-> acc.workingDays + 1]

monthlyStats ==
    MonthlyStatsOf(SelectSeq(calendarData,
        LAMBDA day : isSameMonth(day.date, currentMonth) /\ day.hasAttendance))

\* fetchCalendarData up to its await: the pending queries and the loading flag
\* it leaves, given the selectedUser and currentMonth of the render that calls it
FetchCalendarDataIssue(user, month, queue, flag) ==
    IF user = "" \/ user = "all"
    THEN [pending |-> queue, loading |-> flag]
    ELSE [pending |-> Append(queue, AbsensiQuery(user, month, <<>>)),
          loading |-> TRUE]

\* the effect on [currentMonth, selectedUser]
CalendarEffect(user, month, queue, flag) ==
    IF user # "" /\ user # "all"
    THEN FetchCalendarDataIssue(user, month, queue, flag)
    ELSE [pending |-> queue, loading |-> flag]

\* useEffect(() => { fetchUsers(); }, []) and the first run of the effect on
\* [currentMonth, selectedUser]
CalMount ==
    /\ view = "calendar" /\ ~mounted
    /\ mounted' = TRUE
    /\ LET issued == CalendarEffect(selectedUser, currentMonth,
                         <<ProfilesQuery("all", currentMonth)>>, loading)
       IN pending' = issued.pending /\ loading' = issued.loading
    /\ UNCHANGED <<pageVars, download, toasts, failedCalls>>
    /\ UNCHANGED <<view, db, opsLeft, selectedUserId, currentMonth, selectedUser,
                   users, calendarData, gridData, workingDays, attendance,
                   hoursSummary, filters, lastArrived, hd>>

\* fetchUsers after its await.  Its selectedUser is the one of the first
\* render, the prop selectedUserId.  A change of selectedUser re-runs the effect.
CalUsersResponse(i, outcome) ==
    /\ view = "calendar" /\ mounted
    /\ i \in 1..Len(pending) /\ pending[i].table = "profiles"
    /\ LET data == IF outcome = "ok" THEN Profiles ELSE <<>>
           rest == RemoveAt(pending, i)
           chosen == IF outcome # "error" /\ (selectedUserId = "" \/ selectedUserId = "all")
                     THEN (IF Len(data) > 0 THEN data[1].id ELSE "")
                     ELSE selectedUser
           issued == IF chosen # selectedUser
                     THEN CalendarEffect(chosen, currentMonth, rest, loading)
                     ELSE [pending |-> rest, loading |-> loading]
       IN /\ users' = IF outcome # "error" THEN data ELSE users
          /\ selectedUser' = chosen
          /\ pending' = issued.pending
          /\ loading' = issued.loading
    /\ failedCalls' = failedCalls + (IF outcome = "error" THEN 1 ELSE 0)
    /\ UNCHANGED <<pageVars, download, toasts>>
    /\ UNCHANGED <<view, mounted, db, opsLeft, selectedUserId, currentMonth,
                   calendarData, gridData, workingDays, attendance, hoursSummary,
                   filters, lastArrived, hd>>

\* <Select value={selectedUser} onValueChange={setSelectedUser}>
CalSelectUser(u) ==
    /\ view = "calendar" /\ mounted /\ opsLeft > 0
    /\ \E k \in 1..Len(users) : users[k].id = u
    /\ u # selectedUser
    /\ selectedUser' = u
    /\ opsLeft' = opsLeft - 1
    /\ LET issued == CalendarEffect(u, currentMonth, pending, loading)
       IN pending' = issued.pending /\ loading' = issued.loading
    /\ UNCHANGED <<pageVars, download, toasts, failedCalls>>
    /\ UNCHANGED <<view, mounted, db, selectedUserId, currentMonth, users,
                   calendarData, gridData, workingDays, attendance, hoursSummary,
                   filters, lastArrived, hd>>

\* setCurrentMonth(subMonths(currentMonth, 1))
CalPrevMonth ==
    /\ view = "calendar" /\ mounted /\ opsLeft > 0
    /\ currentMonth - 1 \in Months
    /\ currentMonth' = currentMonth - 1
    /\ opsLeft' = opsLeft - 1
    /\ LET issued == CalendarEffect(selectedUser, currentMonth - 1, pending, loading)
       IN pending' = issued.pending /\ loading' = issued.loading
    /\ UNCHANGED <<pageVars, download, toasts, failedCalls>>
    /\ UNCHANGED <<view, mounted, db, selectedUserId, selectedUser, users,
                   calendarData, gridData, workingDays, attendance, hoursSummary,
                   filters, lastArrived, hd>>

\* setCurrentMonth(addMonths(currentMonth, 1))
CalNextMonth ==
    /\ view = "calendar" /\ mounted /\ opsLeft > 0
    /\ currentMonth + 1 \in Months
    /\ currentMonth' = currentMonth + 1
    /\ opsLeft' = opsLeft - 1
    /\ LET issued == CalendarEffect(selectedUser, currentMonth + 1, pending, loading)
       IN pending' = issued.pending /\ loading' = issued.loading
    /\ UNCHANGED <<pageVars, download, toasts, failedCalls>>
    /\ UNCHANGED <<view, mounted, db, selectedUserId, selectedUser, users,
                   calendarData, gridData, workingDays, attendance, hoursSummary,
                   filters, lastArrived, hd>>

\* fetchCalendarData after its await; month and user are those of the call
CalAttendanceResponse(i, outcome) ==
    /\ view = "calendar" /\ mounted
    /\ i \in 1..Len(pending) /\ pending[i].table = "absensi"
    /\ pending' = RemoveAt(pending, i)
    /\ loading' = FALSE
    /\ calendarData' =
           IF outcome = "error" THEN calendarData
           ELSE ProcessCalendarData(
                    QueryCalendar(db, pending[i].user, pending[i].month),
                    pending[i].month)
    /\ lastArrived' = IF outcome = "error" THEN lastArrived ELSE pending[i]
    /\ failedCalls' = failedCalls + (IF outcome = "error" THEN 1 ELSE 0)
    /\ UNCHANGED <<pageVars, download, toasts>>
    /\ UNCHANGED <<view, mounted, db, opsLeft, selectedUserId, currentMonth,
                   selectedUser, users, gridData, workingDays, attendance,
                   hoursSummary, filters, hd>>

-----------------------------------------------------------------------------
(* DailyHoursGrid *)

WorkingDaysInMonthAllDays(month) ==
    eachDayOfInterval(startOfMonth(month), endOfMonth(month))

WorkingDaysInMonthSundaysOnly(month) ==
    SelectSeq(eachDayOfInterval(startOfMonth(month), endOfMonth(month)),
              LAMBDA day : getDay(day) # 0)

\* allDays.filter(day => !isWeekend(day))
WorkingDaysInMonth(month) ==
    SelectSeq(eachDayOfInterval(startOfMonth(month), endOfMonth(month)),
              LAMBDA day : ~isWeekend(day))

\* the profiles query of fetchGridData: narrowed to selectedUserId unless it
\* is empty or 'all'
QueryGridUsers(user) ==
    IF user # "" /\ user # "all"
    THEN SelectSeq(Profiles, LAMBDA profile : profile.id = user)
    ELSE Profiles

\* the month's rows of every user, ordered by waktu
QueryGridAttendance(table, month) ==
    SelectSeq(table, LAMBDA record : InMonth(record, month))

\* the forEach over dayAttendance, in minutes
RECURSIVE DayHoursGrid(_)
DayHoursGrid(dayAttendance) ==
    IF dayAttendance = <<>> THEN [expectedHours |-> 0, actualHours |-> 0]
    ELSE LET record == Head(dayAttendance)
             rest == DayHoursGrid(Tail(dayAttendance))
         IN IF HasShift(record)
            THEN [expectedHours |-> rest.expectedHours +
                      calculateHoursDifferenceGrid(record.shift.jam_masuk,
                                                   record.shift.jam_keluar),
                  actualHours |-> rest.actualHours +
                      (IF HasClockOut(record)
                       THEN calculateHoursDifferenceGrid(
                                FormatHHmm(record.waktu),
                                FormatHHmm(record.clock_out_time))
                       ELSE 0)]
            ELSE rest

MissingHoursGridSigned(expectedHours, actualHours) == expectedHours - actualHours

\* Math.max(0, expectedHours - actualHours)
MissingHoursGrid(expectedHours, actualHours) == Max(0, expectedHours - actualHours)

\* one working day of one user, unrounded (minutes)
DayOfUserGrid(userAttendance, date) ==
    LET dayAttendance ==
            SelectSeq(userAttendance, LAMBDA record : FormatDate(record.waktu) = date)
        h == DayHoursGrid(dayAttendance)
    IN [date |-> date,
        expectedHours |-> h.expectedHours,
        actualHours |-> h.actualHours,
        missingHours |-> MissingHoursGrid(h.expectedHours, h.actualHours),
        hasAttendance |-> Len(dayAttendance) > 0]

\* dailyData[dateStr]
DailyHourData(day) ==
    [date |-> day.date,
     expectedHours |-> Round2(day.expectedHours),
     actualHours |-> Round2(day.actualHours),
     missingHours |-> Round2(day.missingHours),
     hasAttendance |-> day.hasAttendance]

\* the totals a user accumulates over the working days that have attendance
RECURSIVE UserTotalsGrid(_, _)
UserTotalsGrid(userAttendance, days) ==
    IF days = <<>>
    THEN [totalMissingHours |-> 0, totalExpectedHours |-> 0,
          totalActualHours |-> 0, workingDaysCount |-> 0]
    ELSE LET day == DayOfUserGrid(userAttendance, days[Len(days)])
             acc == UserTotalsGrid(userAttendance, SubSeq(days, 1, Len(days) - 1))
         IN IF day.hasAttendance
            THEN [totalMissingHours |-> acc.totalMissingHours + day.missingHours,
                  totalExpectedHours |-> acc.totalExpectedHours + day.expectedHours,
                  totalActualHours |-> acc.totalActualHours + day.actualHours,
                  workingDaysCount |-> acc.workingDaysCount + 1]
            ELSE acc

\* the UserDailyData of one user
UserDailyData(user, attendanceData, workingDaysInMonth) ==
    LET userAttendance ==
            SelectSeq(attendanceData, LAMBDA record : record.user_id = user.id)
        totals == UserTotalsGrid(userAttendance, workingDaysInMonth)
    IN [userId |-> user.id,
        userName |-> user.name,
        dailyData |->
            [date \in {workingDaysInMonth[k] : k \in 1..Len(workingDaysInMonth)} |->
                DailyHourData(DayOfUserGrid(userAttendance, date))],
        totalMissingHours |-> Round2(totals.totalMissingHours),
        totalExpectedHours |-> Round2(totals.totalExpectedHours),
        totalActualHours |-> Round2(totals.totalActualHours),
        workingDays |-> totals.workingDaysCount]

ProcessGridDataAttendedOnly(usersData, attendanceData, month) ==
    LET attended == SelectSeq(usersData, LAMBDA user :
                        \E k \in 1..Len(attendanceData) :
                            attendanceData[k].user_id = user.id)
    IN [k \in 1..Len(attended) |->
           UserDailyData(attended[k], attendanceData, WorkingDaysInMonth(month))]

ProcessGridData(usersData, attendanceData, month) ==
    [k \in 1..Len(usersData) |->
        UserDailyData(usersData[k], attendanceData, WorkingDaysInMonth(month))]

\* gridData.reduce((sum, user) => sum + user.totalMissingHours, 0), in hundredths
RECURSIVE SumTotalMissing(_)
SumTotalMissing(rows) ==
    IF rows = <<>> THEN 0
    ELSE SumTotalMissing(SubSeq(rows, 1, Len(rows) - 1)) + rows[Len(rows)].totalMissingHours

TotalKekuranganJam == SumTotalMissing(gridData)

\* fetchGridData up to its first await
GridFetchIssue(user, month) ==
    /\ loading' = TRUE
    /\ workingDays' = WorkingDaysInMonth(month)
    /\ pending' = Append(pending, ProfilesQuery(user, month))

\* the first run of the effect on [currentMonth, selectedUserId]
GridMount ==
    /\ view = "grid" /\ ~mounted
    /\ mounted' = TRUE
    /\ GridFetchIssue(selectedUserId, currentMonth)
    /\ UNCHANGED <<pageVars, download, toasts, failedCalls>>
    /\ UNCHANGED <<view, db, opsLeft, selectedUserId, currentMonth, selectedUser,
                   users, calendarData, gridData, attendance, hoursSummary,
                   filters, lastArrived, hd>>

\* setCurrentMonth(subMonths(currentMonth, 1))
GridPrevMonth ==
    /\ view = "grid" /\ mounted /\ opsLeft > 0
    /\ currentMonth - 1 \in Months
    /\ currentMonth' = currentMonth - 1
    /\ opsLeft' = opsLeft - 1
    /\ GridFetchIssue(selectedUserId, currentMonth - 1)
    /\ UNCHANGED <<pageVars, download, toasts, failedCalls>>
    /\ UNCHANGED <<view, mounted, db, selectedUserId, selectedUser, users,
                   calendarData, gridData, attendance, hoursSummary, filters,
                   lastArrived, hd>>

\* setCurrentMonth(addMonths(currentMonth, 1))
GridNextMonth ==
    /\ view = "grid" /\ mounted /\ opsLeft > 0
    /\ currentMonth + 1 \in Months
    /\ currentMonth' = currentMonth + 1
    /\ opsLeft' = opsLeft - 1
    /\ GridFetchIssue(selectedUserId, currentMonth + 1)
    /\ UNCHANGED <<pageVars, download, toasts, failedCalls>>
    /\ UNCHANGED <<view, mounted, db, selectedUserId, selectedUser, users,
                   calendarData, gridData, attendance, hoursSummary, filters,
                   lastArrived, hd>>

\* the parent renders the grid with another selectedUserId (filters.userId)
GridSelectedUserIdChange(u) ==
    /\ view = "grid" /\ mounted /\ opsLeft > 0
    /\ u # selectedUserId
    /\ selectedUserId' = u
    /\ opsLeft' = opsLeft - 1
    /\ GridFetchIssue(u, currentMonth)
    /\ UNCHANGED <<pageVars, download, toasts, failedCalls>>
    /\ UNCHANGED <<view, mounted, db, currentMonth, selectedUser, users,
                   calendarData, gridData, attendance, hoursSummary, filters,
                   lastArrived, hd>>

\* fetchGridData after the await of the profiles query
GridUsersResponse(i, outcome) ==
    /\ view = "grid" /\ mounted
    /\ i \in 1..Len(pending) /\ pending[i].table = "profiles"
    /\ LET usersData == IF outcome = "ok" THEN QueryGridUsers(pending[i].user)
                        ELSE <<>>
           rest == RemoveAt(pending, i)
       IN IF outcome = "error"
          THEN pending' = rest /\ loading' = FALSE
          ELSE /\ pending' = Append(rest, AbsensiQuery("all", pending[i].month, usersData))
               /\ UNCHANGED loading
    /\ failedCalls' = failedCalls + (IF outcome = "error" THEN 1 ELSE 0)
    /\ UNCHANGED <<pageVars, download, toasts>>
    /\ UNCHANGED <<view, mounted, db, opsLeft, selectedUserId, currentMonth,
                   selectedUser, users, calendarData, gridData, workingDays,
                   attendance, hoursSummary, filters, lastArrived, hd>>

\* fetchGridData after the await of the absensi query
GridAttendanceResponse(i, outcome) ==
    /\ view = "grid" /\ mounted
    /\ i \in 1..Len(pending) /\ pending[i].table = "absensi"
    /\ pending' = RemoveAt(pending, i)
    /\ loading' = FALSE
    /\ gridData' =
           IF outcome = "error" THEN gridData
           ELSE ProcessGridData(pending[i].usersData,
                                QueryGridAttendance(db, pending[i].month),
                                pending[i].month)
    /\ lastArrived' = IF outcome = "error" THEN lastArrived ELSE pending[i]
    /\ failedCalls' = failedCalls + (IF outcome = "error" THEN 1 ELSE 0)
    /\ UNCHANGED <<pageVars, download, toasts>>
    /\ UNCHANGED <<view, mounted, db, opsLeft, selectedUserId, currentMonth,
                   selectedUser, users, calendarData, workingDays, attendance,
                   hoursSummary, filters, hd>>

-----------------------------------------------------------------------------
(* AttendanceReports *)

\* new Date(): 2026-02-28
Today == endOfMonth(1)

\* startDate: format(new Date(), 'yyyy-MM-01'), endDate: format(new Date(), 'yyyy-MM-dd')
InitialFilters ==
    [startDate |-> startOfMonth(1), endDate |-> Today, userId |-> "all",
     status |-> "all", method |-> "all"]

Reverse(q) == [k \in 1..Len(q) |-> q[Len(q) + 1 - k]]

\* the absensi query of fetchAttendanceData: the rows from startDate 00:00 to
\* endDate 23:59:59.999 that pass the userId, status and method filters, ordered
\* by waktu descending (timestamps are taken in one time zone)
QueryReports(table, flt) ==
    Reverse(SelectSeq(table, LAMBDA record :
        /\ record.waktu >= flt.startDate * MinutesPerDay
        /\ record.waktu < (flt.endDate + 1) * MinutesPerDay
        /\ (flt.userId # "" /\ flt.userId # "all" => record.user_id = flt.userId)
        /\ (flt.status # "" /\ flt.status # "all" => record.status = flt.status)
        /\ (flt.method # "" /\ flt.method # "all" => record.metode = flt.method)))

\* the keys of userAttendance in the order Object.entries gives them: the
\* user ids in the order of their first row
RECURSIVE UserOrder(_)
UserOrder(attendanceData) ==
    IF attendanceData = <<>> THEN <<>>
    ELSE LET before == UserOrder(SubSeq(attendanceData, 1, Len(attendanceData) - 1))
             userId == attendanceData[Len(attendanceData)].user_id
         IN IF \E k \in 1..Len(before) : before[k] = userId
            THEN before ELSE Append(before, userId)

RECURSIVE UserHoursRepDistinctDays(_)
UserHoursRepDistinctDays(records) ==
    IF records = <<>>
    THEN [totalExpectedHours |-> 0, totalActualHours |-> 0, workingDays |-> 0]
    ELSE LET record == Head(records)
             rest == UserHoursRepDistinctDays(Tail(records))
             later == Tail(records)
         IN IF HasShift(record)
            THEN [totalExpectedHours |-> rest.totalExpectedHours +
                      calculateHoursDifferenceRep(record.shift.jam_masuk,
                                                  record.shift.jam_keluar),
                  totalActualHours |-> rest.totalActualHours +
                      (IF HasClockOut(record)
                       THEN calculateHoursDifferenceRep(
                                FormatHHmm(record.waktu),
                                FormatHHmm(record.clock_out_time))
                       ELSE 0),
                  workingDays |-> rest.workingDays +
                      (IF \E k \in DOMAIN later :
                              /\ HasShift(later[k])
                              /\ FormatDate(later[k].waktu) = FormatDate(record.waktu)
                       THEN 0 ELSE 1)]
            ELSE rest

\* the forEach over a user's records, in minutes
RECURSIVE UserHoursRep(_)
UserHoursRep(records) ==
    IF records = <<>>
    THEN [totalExpectedHours |-> 0, totalActualHours |-> 0, workingDays |-> 0]
    ELSE LET record == Head(records)
             rest == UserHoursRep(Tail(records))
         IN IF HasShift(record)
            THEN [totalExpectedHours |-> rest.totalExpectedHours +
                      calculateHoursDifferenceRep(record.shift.jam_masuk,
                                                  record.shift.jam_keluar),
                  totalActualHours |-> rest.totalActualHours +
                      (IF HasClockOut(record)
                       THEN calculateHoursDifferenceRep(
                                FormatHHmm(record.waktu),
                                FormatHHmm(record.clock_out_time))
                       ELSE 0),
                  workingDays |-> rest.workingDays + 1]
            ELSE rest

MissingHoursRep(totalExpectedHours, totalActualHours) ==
    Max(0, totalExpectedHours - totalActualHours)

OvertimeHoursRep(totalExpectedHours, totalActualHours) ==
    Max(0, totalActualHours - totalExpectedHours)

\* Math.round(((totalActualHours / totalExpectedHours) * 100) * 100) / 100, in
\* hundredths of a percent
EfficiencyRep(totalExpectedHours, totalActualHours) ==
    IF totalExpectedHours > 0
    THEN (2 * 10000 * totalActualHours + totalExpectedHours) \div (2 * totalExpectedHours)
    ELSE 0

\* Math.round((totalActualHours / workingDays) * 100) / 100, in hundredths
AverageHoursPerDayRep(totalActualHours, workingDaysCount) ==
    IF workingDaysCount > 0
    THEN (10 * totalActualHours + 3 * workingDaysCount) \div (6 * workingDaysCount)
    ELSE 0

\* the HoursSummary of one user
HoursSummaryOf(userId, records) ==
    LET h == UserHoursRep(records)
    IN [userId |-> userId,
        userName |-> IF ProfileName(records[1].user_id) # ""
                     THEN ProfileName(records[1].user_id) ELSE "Unknown",
        workingDays |-> h.workingDays,
        totalExpectedHours |-> Round2(h.totalExpectedHours),
        totalActualHours |-> Round2(h.totalActualHours),
        missingHours |->
            Round2(MissingHoursRep(h.totalExpectedHours, h.totalActualHours)),
        overtimeHours |->
            Round2(OvertimeHoursRep(h.totalExpectedHours, h.totalActualHours)),
        efficiency |-> EfficiencyRep(h.totalExpectedHours, h.totalActualHours),
        averageHoursPerDay |-> AverageHoursPerDayRep(h.totalActualHours, h.workingDays)]

\* the value calculateHoursSummary passes to setHoursSummary
calculateHoursSummary(attendanceData) ==
    LET order == UserOrder(attendanceData)
    IN [k \in 1..Len(order) |->
           HoursSummaryOf(order[k],
               SelectSeq(attendanceData, LAMBDA record : record.user_id = order[k]))]

ApplyAttendanceResponseIfCurrent(query, outcome) ==
    IF outcome # "error" /\ query.flt = filters
    THEN [attendance |-> QueryReports(db, query.flt),
          hoursSummary |-> calculateHoursSummary(QueryReports(db, query.flt))]
    ELSE [attendance |-> attendance, hoursSummary |-> hoursSummary]

ApplyAttendanceResponseMerging(query, outcome) ==
    IF outcome # "error"
    THEN [attendance |-> QueryReports(db, query.flt) \o attendance,
          hoursSummary |-> calculateHoursSummary(QueryReports(db, query.flt))
                               \o hoursSummary]
    ELSE [attendance |-> attendance, hoursSummary |-> hoursSummary]

\* what a response of the absensi query leaves in attendance, hoursSummary
\* (if (!error && data) { setAttendance(data); calculateHoursSummary(data); })
ApplyAttendanceResponse(query, outcome) ==
    IF outcome # "error"
    THEN [attendance |-> QueryReports(db, query.flt),
          hoursSummary |-> calculateHoursSummary(QueryReports(db, query.flt))]
    ELSE [attendance |-> attendance, hoursSummary |-> hoursSummary]

\* both effects run after the first render: fetchUsers() and
\* fetchAttendanceData() of the effect on [], fetchAttendanceData() of the
\* effect on [filters]
RepMount ==
    /\ view = "reports" /\ ~mounted
    /\ mounted' = TRUE
    /\ loading' = TRUE
    /\ pending' = pending \o <<ProfilesQuery("all", 0), ReportQuery(filters),
                               ReportQuery(filters)>>
    /\ UNCHANGED <<pageVars, download, toasts, failedCalls>>
    /\ UNCHANGED <<view, db, opsLeft, selectedUserId, currentMonth, selectedUser,
                   users, calendarData, gridData, workingDays, attendance,
                   hoursSummary, filters, lastArrived, hd>>

\* fetchUsers after its await
RepUsersResponse(i, outcome) ==
    /\ view = "reports" /\ mounted
    /\ i \in 1..Len(pending) /\ pending[i].table = "profiles"
    /\ pending' = RemoveAt(pending, i)
    /\ users' = IF outcome = "ok" THEN Profiles
                ELSE IF outcome = "empty" THEN <<>> ELSE users
    /\ failedCalls' = failedCalls + (IF outcome = "error" THEN 1 ELSE 0)
    /\ UNCHANGED <<pageVars, download, toasts>>
    /\ UNCHANGED <<view, mounted, db, opsLeft, selectedUserId, currentMonth,
                   selectedUser, loading, calendarData, gridData, workingDays,
                   attendance, hoursSummary, filters, lastArrived, hd>>

\* the values the filter controls offer
FilterValues(field) ==
    CASE field = "userId" -> {"all"} \cup {users[k].id : k \in 1..Len(users)}
      [] field = "status" -> {"all", "HADIR", "TERLAMBAT", "MAKE_UP"}
      [] field = "method" -> {"all", "absen", "make-up"}
      [] field = "startDate" -> {startOfMonth(1), 33}
      [] field = "endDate" -> {Today, 32}

\* setFilters({ ...filters, [field]: value }) and the effect on [filters]:
\* fetchAttendanceData() up to its await
RepSetFilter(field, value) ==
    /\ view = "reports" /\ mounted /\ opsLeft > 0
    /\ value \in FilterValues(field)
    /\ value # filters[field]
    /\ filters' = [filters EXCEPT ![field] = value]
    /\ opsLeft' = opsLeft - 1
    /\ loading' = TRUE
    /\ pending' = Append(pending, ReportQuery(filters'))
    /\ UNCHANGED <<pageVars, download, toasts, failedCalls>>
    /\ UNCHANGED <<view, mounted, db, selectedUserId, currentMonth, selectedUser,
                   users, calendarData, gridData, workingDays, attendance,
                   hoursSummary, lastArrived, hd>>

\* resetFilters: a new filters object, so the effect runs even when no value changed
RepResetFilters ==
    /\ view = "reports" /\ mounted /\ opsLeft > 0
    /\ filters' = InitialFilters
    /\ opsLeft' = opsLeft - 1
    /\ loading' = TRUE
    /\ pending' = Append(pending, ReportQuery(InitialFilters))
    /\ UNCHANGED <<pageVars, download, toasts, failedCalls>>
    /\ UNCHANGED <<view, mounted, db, selectedUserId, currentMonth, selectedUser,
                   users, calendarData, gridData, workingDays, attendance,
                   hoursSummary, lastArrived, hd>>

\* fetchAttendanceData after its await
RepAttendanceResponse(i, outcome) ==
    /\ view = "reports" /\ mounted
    /\ i \in 1..Len(pending) /\ pending[i].table = "absensi"
    /\ pending' = RemoveAt(pending, i)
    /\ LET applied == ApplyAttendanceResponse(pending[i], outcome)
       IN /\ attendance' = applied.attendance
          /\ hoursSummary' = applied.hoursSummary
    /\ lastArrived' = IF outcome = "error" THEN lastArrived ELSE pending[i]
    /\ loading' = FALSE
    /\ failedCalls' = failedCalls + (IF outcome = "error" THEN 1 ELSE 0)
    /\ UNCHANGED <<pageVars, download, toasts>>
    /\ UNCHANGED <<view, mounted, db, opsLeft, selectedUserId, currentMonth,
                   selectedUser, users, calendarData, gridData, workingDays,
                   filters, hd>>

-----------------------------------------------------------------------------
(* calculateHoursDifference applied to a pair of times of day, and the hours *)
(* of a record that clocks in and out at those times of day                  *)

\* whole days that pass between a clock-in and the clock-out, besides the
\* time from one time of day to the other
ElapsedDays == {0, 1}

\* a row of the 09:00-17:00 shift clocked in on Mon 2026-02-02 at startTime and
\* clocked out at endTime, days whole days later than the first time the clock
\* shows endTime again
RecordOfTimes(startTime, endTime, days) ==
    Row("u1", 32 * MinutesPerDay + startTime,
        [shift |-> Shift9to17,
         span |-> (IF endTime >= startTime THEN endTime - startTime
                   ELSE endTime + MinutesPerDay - startTime)
                  + days * MinutesPerDay])

HoursDifferenceApply ==
    /\ view = "hours" /\ ~mounted
    /\ mounted' = TRUE
    /\ LET record == RecordOfTimes(hd.startTime, hd.endTime, hd.days)
       IN hd' = [hd EXCEPT
                    !.cal = calculateHoursDifferenceCal(hd.startTime, hd.endTime),
                    !.grid = calculateHoursDifferenceGrid(hd.startTime, hd.endTime),
                    !.rep = calculateHoursDifferenceRep(hd.startTime, hd.endTime),
                    !.actualCal = RecordHoursCal(record).actualHours,
                    !.actualGrid = DayHoursGrid(<<record>>).actualHours,
                    !.actualRep = UserHoursRep(<<record>>).totalActualHours]
    /\ UNCHANGED <<pageVars, download, toasts, failedCalls>>
    /\ UNCHANGED <<view, db, opsLeft, pending, selectedUserId, currentMonth,
                   selectedUser, users, loading, calendarData, gridData,
                   workingDays, attendance, hoursSummary, filters, lastArrived>>

-----------------------------------------------------------------------------
(* Auth page *)

\* a call of signIn or signUp in flight
AuthCall(kind) == [table |-> "auth", call |-> kind]

\* toast({ ..., variant: "destructive" }) / toast({ ... })
Toast(variant) == [toasts EXCEPT ![variant] = @ + 1]

AuthSubmitUnguarded(kind) ==
    /\ view = "auth" /\ opsLeft > 0
    /\ isLoading' = TRUE
    /\ opsLeft' = opsLeft - 1
    /\ pending' = Append(pending, AuthCall(kind))
    /\ UNCHANGED <<view, mounted, db, loading, reportVars, hd, download, open, formData,
                   makeupRequests, onSuccessCalls, toasts, failedCalls>>

\* handleSignIn / handleSignUp up to the await; the submit button is disabled
\* while isLoading
AuthSubmit(kind) ==
    /\ view = "auth" /\ opsLeft > 0
    /\ ~isLoading
    /\ isLoading' = TRUE
    /\ opsLeft' = opsLeft - 1
    /\ pending' = Append(pending, AuthCall(kind))
    /\ UNCHANGED <<view, mounted, db, loading, reportVars, hd, download, open, formData,
                   makeupRequests, onSuccessCalls, toasts, failedCalls>>

\* handleSignIn / handleSignUp after the await: the call returns no error,
\* returns an error, or throws
AuthResponse(i, outcome) ==
    /\ view = "auth"
    /\ i \in 1..Len(pending) /\ pending[i].table = "auth"
    /\ pending' = RemoveAt(pending, i)
    /\ toasts' = IF outcome = "ok" THEN Toast("default") ELSE Toast("destructive")
    /\ failedCalls' = failedCalls + (IF outcome = "ok" THEN 0 ELSE 1)
    /\ isLoading' = FALSE
    /\ UNCHANGED <<view, mounted, db, opsLeft, loading, reportVars, hd, download, open,
                   formData, makeupRequests, onSuccessCalls>>

-----------------------------------------------------------------------------
(* CSV exports *)

\* the characters that matter in delimited text
Quote == "\""
Comma == ","
LineBreak == "\n"

\* a text as the sequence of its pieces: every double quote, comma and line
\* break of the text is a piece of its own, the stretches between them are
\* one piece each
Text(s) ==
    IF s = "" THEN <<>>
    ELSE IF s = "Budi \"Bud\", S.Kom"
    THEN <<"Budi ", Quote, "Bud", Quote, Comma, " S.Kom">>
    ELSE <<s>>

\* Number.prototype.toString() of a number kept in hundredths: 800 is "8",
\* 758 is "7.58", 50 is "0.5"
NumberText(hundredths) ==
    LET whole == hundredths \div 100
        tenths == (hundredths % 100) \div 10
        rest == hundredths % 10
    IN IF hundredths % 100 = 0 THEN <<ToString(whole)>>
       ELSE IF rest = 0 THEN <<ToString(whole), ".", ToString(tenths)>>
       ELSE <<ToString(whole), ".", ToString(tenths), ToString(rest)>>

\* format(date, 'yyyy-MM-dd'), format(date, 'HH:mm:ss'), format(date, 'd'):
\* digits, hyphens and colons; the number stands for the text
DateText(day) == <<"date", ToString(day)>>
TimeText(ts) == <<"time", ToString(ts % MinutesPerDay)>>
DayOfMonthText(day, month) == <<ToString(day - startOfMonth(month) + 1)>>

\* `"${field}"`
QuoteField(field) == <<Quote>> \o field \o <<Quote>>

\* Array.prototype.join of texts
RECURSIVE Join(_, _)
Join(texts, separator) ==
    IF texts = <<>> THEN <<>>
    ELSE IF Len(texts) = 1 THEN texts[1]
    ELSE Join(SubSeq(texts, 1, Len(texts) - 1), separator)
             \o separator \o texts[Len(texts)]

\* [headers, ...csvData].map(row => row.map(field => `"${field}"`).join(',')).join('\n')
CsvContent(rows) ==
    Join([k \in 1..Len(rows) |->
             Join([f \in 1..Len(rows[k]) |-> QuoteField(rows[k][f])], <<Comma>>)],
         <<LineBreak>>)

NoDownload == [kind |-> "", content |-> <<>>, records |-> 0, columns |-> 0]

\* exportToCSV: headers and one row per record of attendance; the rows of the
\* model have no lokasi and no alasan
AttendanceCsvRows ==
    <<<<Text("Name"), Text("Date"), Text("Time"), Text("Status"), Text("Method"),
        Text("Location"), Text("Reason")>>>>
    \o [k \in 1..Len(attendance) |->
           <<Text(IF ProfileName(attendance[k].user_id) # ""
                  THEN ProfileName(attendance[k].user_id) ELSE "Unknown"),
             DateText(FormatDate(attendance[k].waktu)),
             TimeText(attendance[k].waktu),
             Text(attendance[k].status),
             IF attendance[k].metode = "absen" THEN Text("Regular") ELSE Text("Make-up"),
             Text(""),
             Text("")>>]

\* exportHoursToCSV: headers and one row per summary of hoursSummary
HoursCsvRows ==
    <<<<Text("Name"), Text("Working Days"), Text("Total Expected Hours"),
        Text("Total Actual Hours"), Text("Missing Hours"), Text("Overtime Hours"),
        Text("Average Hours Per Day"), Text("Hours Efficiency (%)")>>>>
    \o [k \in 1..Len(hoursSummary) |->
           <<Text(hoursSummary[k].userName),
             <<ToString(hoursSummary[k].workingDays)>>,
             NumberText(hoursSummary[k].totalExpectedHours),
             NumberText(hoursSummary[k].totalActualHours),
             NumberText(hoursSummary[k].missingHours),
             NumberText(hoursSummary[k].overtimeHours),
             NumberText(hoursSummary[k].averageHoursPerDay),
             NumberText(hoursSummary[k].efficiency)>>]

\* the cell exportGridToCSV writes for a user and a working day
GridCsvCell(user, date) ==
    IF date \in DOMAIN user.dailyData /\ user.dailyData[date].hasAttendance
    THEN IF user.dailyData[date].missingHours > 0
         THEN <<"-">> \o NumberText(user.dailyData[date].missingHours) \o <<"h">>
         ELSE <<"check">>
    ELSE <<"-">>

\* exportGridToCSV: headers and one row per user of gridData
GridCsvRows ==
    <<<<Text("Nama"), Text("Total Kekurangan Jam"), Text("Hari Kerja")>>
      \o [c \in 1..Len(workingDays) |->
             DayOfMonthText(workingDays[c], currentMonth)]>>
    \o [k \in 1..Len(gridData) |->
           <<Text(gridData[k].userName),
             NumberText(gridData[k].totalMissingHours),
             <<ToString(gridData[k].workingDays)>>>>
           \o [c \in 1..Len(workingDays) |-> GridCsvCell(gridData[k], workingDays[c])]]

\* exportToCSV
RepExportToCSV ==
    /\ view = "reports" /\ mounted /\ opsLeft > 0
    /\ opsLeft' = opsLeft - 1
    /\ download' = [kind |-> "attendance", content |-> CsvContent(AttendanceCsvRows),
                    records |-> Len(attendance), columns |-> 0]
    /\ toasts' = Toast("default")
    /\ UNCHANGED <<view, mounted, db, pending, loading, reportVars, hd, pageVars,
                   failedCalls>>

\* exportHoursToCSV
RepExportHoursToCSV ==
    /\ view = "reports" /\ mounted /\ opsLeft > 0
    /\ opsLeft' = opsLeft - 1
    /\ download' = [kind |-> "hours", content |-> CsvContent(HoursCsvRows),
                    records |-> Len(hoursSummary), columns |-> 0]
    /\ toasts' = Toast("default")
    /\ UNCHANGED <<view, mounted, db, pending, loading, reportVars, hd, pageVars,
                   failedCalls>>

\* exportGridToCSV
GridExportToCSV ==
    /\ view = "grid" /\ mounted /\ opsLeft > 0
    /\ opsLeft' = opsLeft - 1
    /\ download' = [kind |-> "grid", content |-> CsvContent(GridCsvRows),
                    records |-> Len(gridData), columns |-> Len(workingDays)]
    /\ UNCHANGED <<view, mounted, db, pending, loading, reportVars, hd, pageVars,
                   toasts, failedCalls>>

-----------------------------------------------------------------------------
(* MakeupRequestDialog *)

\* the userId prop
DialogUserId == "u1"

\* null in a text column
NullText == "null"

EmptyForm == [tanggal_absen |-> "", alasan |-> "", bukti_url |-> ""]

\* what the user types into the fields of the form
FormValues(field) ==
    CASE field = "tanggal_absen" -> {"", "2026-02-03"}
      [] field = "alasan" -> {"", "sakit"}
      [] field = "bukti_url" -> {"", "https://example.com/document.pdf"}

InsertRowKeepingEmpty(fd) ==
    [user_id |-> DialogUserId,
     tanggal_absen |-> fd.tanggal_absen,
     alasan |-> fd.alasan,
     bukti_url |-> fd.bukti_url,
     status |-> "pending"]

\* the row handleSubmit inserts
InsertRow(fd) ==
    [user_id |-> DialogUserId,
     tanggal_absen |-> fd.tanggal_absen,
     alasan |-> fd.alasan,
     bukti_url |-> IF fd.bukti_url = "" THEN NullText ELSE fd.bukti_url,
     status |-> "pending"]

\* an insert into makeup_requests in flight
InsertCall(row) == [table |-> "makeup_requests", row |-> row]

\* <Dialog open={open} onOpenChange={setOpen}>, the trigger and the Cancel button
MakeupOpenChange(value) ==
    /\ view = "makeup"
    /\ value # open
    /\ open' = value
    /\ UNCHANGED <<view, mounted, db, opsLeft, pending, loading, reportVars, hd, download,
                   isLoading, formData, makeupRequests, onSuccessCalls, toasts,
                   failedCalls>>

\* onChange of a field: setFormData({ ...formData, [field]: value })
MakeupSetFormData(field, value) ==
    /\ view = "makeup" /\ open
    /\ value \in FormValues(field)
    /\ value # formData[field]
    /\ formData' = [formData EXCEPT ![field] = value]
    /\ UNCHANGED <<view, mounted, db, opsLeft, pending, loading, reportVars, hd, download,
                   isLoading, open, makeupRequests, onSuccessCalls, toasts,
                   failedCalls>>

\* handleSubmit up to the await; the form requires tanggal_absen and alasan
\* and its submit button is disabled while loading
MakeupSubmit ==
    /\ view = "makeup" /\ open /\ opsLeft > 0
    /\ ~loading
    /\ formData.tanggal_absen # "" /\ formData.alasan # ""
    /\ loading' = TRUE
    /\ opsLeft' = opsLeft - 1
    /\ pending' = Append(pending, InsertCall(InsertRow(formData)))
    /\ UNCHANGED <<view, mounted, db, reportVars, hd, download, pageVars, toasts, failedCalls>>

MakeupInsertResponseResetting(i, outcome) ==
    /\ view = "makeup"
    /\ i \in 1..Len(pending) /\ pending[i].table = "makeup_requests"
    /\ pending' = RemoveAt(pending, i)
    /\ IF outcome = "ok"
       THEN /\ makeupRequests' = Append(makeupRequests, pending[i].row)
            /\ toasts' = Toast("default")
            /\ onSuccessCalls' = onSuccessCalls + 1
            /\ UNCHANGED failedCalls
       ELSE /\ toasts' = Toast("destructive")
            /\ failedCalls' = failedCalls + 1
            /\ UNCHANGED <<makeupRequests, onSuccessCalls>>
    /\ formData' = EmptyForm
    /\ open' = FALSE
    /\ loading' = FALSE
    /\ UNCHANGED <<view, mounted, db, opsLeft, reportVars, hd, download, isLoading>>

\* handleSubmit after the await: the insert returns no error, returns an
\* error, or throws
MakeupInsertResponse(i, outcome) ==
    /\ view = "makeup"
    /\ i \in 1..Len(pending) /\ pending[i].table = "makeup_requests"
    /\ pending' = RemoveAt(pending, i)
    /\ IF outcome = "ok"
       THEN /\ makeupRequests' = Append(makeupRequests, pending[i].row)
            /\ toasts' = Toast("default")
            /\ formData' = EmptyForm
            /\ open' = FALSE
            /\ onSuccessCalls' = onSuccessCalls + 1
            /\ UNCHANGED failedCalls
       ELSE /\ toasts' = Toast("destructive")
            /\ failedCalls' = failedCalls + 1
            /\ UNCHANGED <<makeupRequests, formData, open, onSuccessCalls>>
    /\ loading' = FALSE
    /\ UNCHANGED <<view, mounted, db, opsLeft, reportVars, hd, download, isLoading>>

-----------------------------------------------------------------------------
(* Specification *)

Views == {"calendar", "grid", "reports", "hours"}

InitWith(tables, props, ops) ==
    /\ view \in Views
    /\ mounted = FALSE
    /\ db \in IF view = "hours" THEN {<<>>} ELSE tables
    /\ opsLeft = ops
    /\ pending = <<>>
    /\ selectedUserId \in IF view \in {"calendar", "grid"} THEN props ELSE {""}
    /\ currentMonth \in IF view \in {"calendar", "grid"} THEN Months ELSE {1}
    /\ selectedUser = selectedUserId
    /\ users = <<>>
    /\ loading = TRUE
    /\ calendarData = <<>>
    /\ gridData = <<>>
    /\ workingDays = <<>>
    /\ attendance = <<>>
    /\ hoursSummary = <<>>
    /\ filters = InitialFilters
    /\ lastArrived = NoQuery
    /\ hd \in IF view = "hours"
              THEN [startTime : TimesOfDay, endTime : TimesOfDay, days : ElapsedDays,
                    cal : {0}, grid : {0}, rep : {0},
                    actualCal : {0}, actualGrid : {0}, actualRep : {0}]
              ELSE {[startTime |-> 0, endTime |-> 0, days |-> 0,
                     cal |-> 0, grid |-> 0, rep |-> 0,
                     actualCal |-> 0, actualGrid |-> 0, actualRep |-> 0]}
    /\ isLoading = FALSE
    /\ open = FALSE
    /\ formData = EmptyForm
    /\ makeupRequests = <<>>
    /\ download = NoDownload
    /\ toasts = [default |-> 0, destructive |-> 0]
    /\ failedCalls = 0
    /\ onSuccessCalls = 0

\* a table of two rows: one user on Monday, the other on Tuesday night
SmallTable ==
    <<Row("u1", 32 * MinutesPerDay + 9 * 60 + 5, [shift |-> Shift9to17, span |-> 7 * 60 + 35]),
      Row("u2", 33 * MinutesPerDay + 22 * 60, [shift |-> ShiftNight, span |-> 8 * 60])>>

\* the Auth page and MakeupRequestDialog after construction
Pages == {"auth", "makeup"}

PageInit ==
    /\ view \in Pages
    /\ mounted = FALSE
    /\ db = <<>>
    /\ opsLeft = MaxOps + 1
    /\ pending = <<>>
    /\ selectedUserId = ""
    /\ currentMonth = 1
    /\ selectedUser = ""
    /\ users = <<>>
    /\ loading = FALSE
    /\ calendarData = <<>>
    /\ gridData = <<>>
    /\ workingDays = <<>>
    /\ attendance = <<>>
    /\ hoursSummary = <<>>
    /\ filters = InitialFilters
    /\ lastArrived = NoQuery
    /\ hd = [startTime |-> 0, endTime |-> 0, days |-> 0,
             cal |-> 0, grid |-> 0, rep |-> 0,
             actualCal |-> 0, actualGrid |-> 0, actualRep |-> 0]
    /\ isLoading = FALSE
    /\ open = FALSE
    /\ formData = EmptyForm
    /\ makeupRequests = <<>>
    /\ download = NoDownload
    /\ toasts = [default |-> 0, destructive |-> 0]
    /\ failedCalls = 0
    /\ onSuccessCalls = 0

\* either any table and a user who only looks, or the small table and a user
\* who interacts up to MaxOps times, or one of the pages
Init ==
    \/ InitWith(Tables, {"all", "u1"}, 0)
    \/ InitWith({SmallTable}, {"", "u1"}, MaxOps)
    \/ PageInit

Next ==
    \/ CalMount
    \/ \E i \in 1..Len(pending), outcome \in {"ok", "empty", "error"} :
           CalUsersResponse(i, outcome)
    \/ \E u \in UserIds : CalSelectUser(u)
    \/ CalPrevMonth
    \/ CalNextMonth
    \/ \E i \in 1..Len(pending), outcome \in {"ok", "error"} :
           CalAttendanceResponse(i, outcome)
    \/ GridMount
    \/ GridPrevMonth
    \/ GridNextMonth
    \/ \E u \in {"all"} \cup UserIds : GridSelectedUserIdChange(u)
    \/ \E i \in 1..Len(pending), outcome \in {"ok", "empty", "error"} :
           GridUsersResponse(i, outcome)
    \/ \E i \in 1..Len(pending), outcome \in {"ok", "error"} :
           GridAttendanceResponse(i, outcome)
    \/ RepMount
    \/ \E i \in 1..Len(pending), outcome \in {"ok", "empty", "error"} :
           RepUsersResponse(i, outcome)
    \/ \E field \in {"userId", "status", "method", "startDate", "endDate"} :
           \E value \in FilterValues(field) : RepSetFilter(field, value)
    \/ RepResetFilters
    \/ \E i \in 1..Len(pending), outcome \in {"ok", "error"} :
           RepAttendanceResponse(i, outcome)
    \/ HoursDifferenceApply
    \/ \E kind \in {"signIn", "signUp"} : AuthSubmit(kind)
    \/ \E i \in 1..Len(pending), outcome \in {"ok", "error", "throw"} :
           AuthResponse(i, outcome)
    \/ \E value \in BOOLEAN : MakeupOpenChange(value)
    \/ \E field \in {"tanggal_absen", "alasan", "bukti_url"} :
           \E value \in FormValues(field) : MakeupSetFormData(field, value)
    \/ MakeupSubmit
    \/ RepExportToCSV
    \/ RepExportHoursToCSV
    \/ GridExportToCSV
    \/ \E i \in 1..Len(pending), outcome \in {"ok", "error", "throw"} :
           MakeupInsertResponse(i, outcome)

Spec == Init /\ [][Next]_vars

-----------------------------------------------------------------------------
(* Reference arithmetic for the properties: spans of times of day, in minutes *)

\* end - start, or (end + 24h) - start when end is before start
SpanOfDay(start, end) == IF end >= start THEN end - start ELSE end + MinutesPerDay - start

\* the shift duration a row contributes, 0 without a usable shift
ExpectedMinutes(record) ==
    IF HasShift(record)
    THEN SpanOfDay(record.shift.jam_masuk, record.shift.jam_keluar) ELSE 0

\* the clock-in to clock-out span the views count for a row: only rows with
\* a usable shift and a clock-out count
ActualMinutes(record) ==
    IF HasShift(record) /\ HasClockOut(record)
    THEN SpanOfDay(record.waktu % MinutesPerDay, record.clock_out_time % MinutesPerDay)
    ELSE 0

RECURSIVE SumOver(_, _, _)
SumOver(Op(_), table, indices) ==
    IF indices = {} THEN 0
    ELSE LET i == CHOOSE i \in indices : TRUE
         IN Op(table[i]) + SumOver(Op, table, indices \ {i})

\* the rows of db a user clocked in on a date
RowsOn(userId, date) ==
    {i \in DOMAIN db : db[i].user_id = userId /\ db[i].waktu \div MinutesPerDay = date}

Cells == {calendarData[k] : k \in DOMAIN calendarData}

Summaries == {hoursSummary[k] : k \in DOMAIN hoursSummary}

GridRows == {gridData[k] : k \in DOMAIN gridData}

-----------------------------------------------------------------------------
(* Properties *)

\* C1: in every DayData of calendarData and every HoursSummary of hoursSummary,
\* missingHours and overtimeHours are never both greater than 0, neither as
\* stored (rounded) nor as computed before rounding.
MissingOvertimeExclusive ==
    /\ \A cell \in Cells :
          LET h == DayHoursCal(cell.attendanceRecords)
          IN /\ ~(cell.missingHours > 0 /\ cell.overtimeHours > 0)
             /\ ~(MissingHoursCal(h.expectedHours, h.actualHours) > 0
                  /\ OvertimeHoursCal(h.expectedHours, h.actualHours) > 0)
    /\ \A summary \in Summaries :
          LET h == UserHoursRep(SelectSeq(attendance,
                       LAMBDA record : record.user_id = summary.userId))
          IN /\ ~(summary.missingHours > 0 /\ summary.overtimeHours > 0)
             /\ ~(MissingHoursRep(h.totalExpectedHours, h.totalActualHours) > 0
                  /\ OvertimeHoursRep(h.totalExpectedHours, h.totalActualHours) > 0)

\* C1 witness: a calendar that holds a day with missing hours and another day
\* with overtime hours
MissingAndOvertimeDaysSeen ==
    /\ \E cell \in Cells : cell.missingHours > 0 /\ cell.actualHours > 0
    /\ \E cell \in Cells : cell.overtimeHours > 0

\* C2: each copy of calculateHoursDifference returns end - start when
\* end >= start and (end + 24h) - start when end < start, never a negative
\* value, and the three copies agree.
HoursDifferenceCorrect ==
    view = "hours" /\ mounted =>
        /\ hd.cal = SpanOfDay(hd.startTime, hd.endTime)
        /\ hd.cal >= 0
        /\ hd.grid = hd.cal
        /\ hd.rep = hd.cal

\* C2 witness: the function applied to an end before the start
OvernightDifferenceSeen ==
    view = "hours" /\ mounted /\ hd.endTime < hd.startTime /\ hd.cal > 0

\* C3: every day cell stores expectedHours = round2(E), actualHours = round2(A),
\* missingHours = round2(max(0, E - A)), overtimeHours = round2(max(0, A - E)),
\* E and A being the unrounded sums over the day's records.
DayValuesRoundedOnce ==
    /\ \A cell \in Cells :
          LET E == SumOver(ExpectedMinutes, cell.attendanceRecords,
                           DOMAIN cell.attendanceRecords)
              A == SumOver(ActualMinutes, cell.attendanceRecords,
                           DOMAIN cell.attendanceRecords)
          IN /\ cell.expectedHours = Round2(E)
             /\ cell.actualHours = Round2(A)
             /\ cell.missingHours = Round2(Max(0, E - A))
             /\ cell.overtimeHours = Round2(Max(0, A - E))
    /\ \A row \in GridRows : \A date \in DOMAIN row.dailyData :
          LET E == SumOver(ExpectedMinutes, db, RowsOn(row.userId, date))
              A == SumOver(ActualMinutes, db, RowsOn(row.userId, date))
          IN /\ row.dailyData[date].expectedHours = Round2(E)
             /\ row.dailyData[date].actualHours = Round2(A)
             /\ row.dailyData[date].missingHours = Round2(Max(0, E - A))

\* C3 witness: a day of two records whose rounded difference is not the
\* difference of the rounded sums: 15h20 expected, 15h10 actual
RoundedDaySeen ==
    \E cell \in Cells :
        /\ Len(cell.attendanceRecords) = 2
        /\ cell.expectedHours = 1533 /\ cell.actualHours = 1517
        /\ cell.missingHours = 17

\* C4: every day of calendarData has exactly one of the four statuses:
\* 'no-attendance' if it has no record, else 'missing' if missingHours > 0,
\* else 'overtime' if overtimeHours > 0, else 'complete'; and the status is
\* 'no-attendance' exactly when hasAttendance is false.
DayClassified ==
    \A cell \in Cells :
        /\ cell.status \in {"complete", "missing", "overtime", "no-attendance"}
        /\ cell.hasAttendance = (Len(cell.attendanceRecords) > 0)
        /\ cell.status =
               IF Len(cell.attendanceRecords) = 0 THEN "no-attendance"
               ELSE IF cell.missingHours > 0 THEN "missing"
               ELSE IF cell.overtimeHours > 0 THEN "overtime"
               ELSE "complete"
        /\ (cell.status = "no-attendance") = ~cell.hasAttendance

\* C4 witness: a calendar with a complete day, a missing day and days
\* without attendance
ClassifiedDaysSeen ==
    /\ \E cell \in Cells : cell.status = "complete"
    /\ \E cell \in Cells : cell.status = "missing"
    /\ \E cell \in Cells : cell.status = "no-attendance"

\* the only record of a day cell, when it has exactly one
OnlyRecord(cell) == cell.attendanceRecords[1]

\* C5: a record without a shift contributes 0 expected hours and its actual
\* hours are still counted: a day whose only record has no shift, a clock-in
\* and a clock-out (actual > 0) has overtimeHours = actual and status 'overtime'.
NoShiftActualCounted ==
    \A cell \in Cells :
        (/\ Len(cell.attendanceRecords) = 1
         /\ ~HasShift(OnlyRecord(cell))
         /\ HasClockOut(OnlyRecord(cell))
         /\ SpanOfDay(OnlyRecord(cell).waktu % MinutesPerDay,
                      OnlyRecord(cell).clock_out_time % MinutesPerDay) > 0)
        => /\ cell.expectedHours = 0
           /\ cell.overtimeHours =
                  Round2(SpanOfDay(OnlyRecord(cell).waktu % MinutesPerDay,
                                   OnlyRecord(cell).clock_out_time % MinutesPerDay))
           /\ cell.status = "overtime"

\* C6: a day on which the user has no attendance record is 'no-attendance',
\* hasAttendance = false, and all its hour values are 0, in calendarData and
\* in every row of gridData.
EmptyDaysAreZero ==
    /\ (view = "calendar" /\ lastArrived # NoQuery =>
           \A cell \in Cells :
               RowsOn(lastArrived.user, cell.date) = {} =>
                   /\ cell.status = "no-attendance"
                   /\ cell.hasAttendance = FALSE
                   /\ cell.expectedHours = 0 /\ cell.actualHours = 0
                   /\ cell.missingHours = 0 /\ cell.overtimeHours = 0)
    /\ \A row \in GridRows : \A date \in DOMAIN row.dailyData :
           RowsOn(row.userId, date) = {} =>
               /\ row.dailyData[date].hasAttendance = FALSE
               /\ row.dailyData[date].expectedHours = 0
               /\ row.dailyData[date].actualHours = 0
               /\ row.dailyData[date].missingHours = 0

\* C6 witness: a calendar of a user with rows, holding a day with attendance
\* next to days without any row
EmptyDayBesideAttendedDaySeen ==
    /\ view = "calendar" /\ lastArrived # NoQuery
    /\ \E cell \in Cells : cell.hasAttendance /\ cell.expectedHours > 0
    /\ \E cell \in Cells :
           RowsOn(lastArrived.user, cell.date) = {} /\ cell.status = "no-attendance"

\* C7 as stated: a day whose only record has a shift and no clock-out has
\* expectedHours = the shift duration, actualHours = 0, missingHours = the
\* shift duration, and status 'missing'.
OpenSessionIsMissing ==
    \A cell \in Cells :
        (/\ Len(cell.attendanceRecords) = 1
         /\ HasShift(OnlyRecord(cell))
         /\ ~HasClockOut(OnlyRecord(cell)))
        => /\ cell.expectedHours = Round2(ExpectedMinutes(OnlyRecord(cell)))
           /\ cell.actualHours = 0
           /\ cell.missingHours = Round2(ExpectedMinutes(OnlyRecord(cell)))
           /\ cell.status = "missing"

\* C7 amended: such a day has expectedHours = the shift duration,
\* actualHours = 0 and missingHours = the shift duration; its status is
\* 'missing' when the shift duration is greater than 0 and 'complete' when the
\* shift's end equals its start (duration 0).  The same record adds the shift
\* duration and 0 actual hours to its user's HoursSummary.
OpenSessionIsMissingUnlessEmptyShift ==
    /\ \A cell \in Cells :
          (/\ Len(cell.attendanceRecords) = 1
           /\ HasShift(OnlyRecord(cell))
           /\ ~HasClockOut(OnlyRecord(cell)))
          => /\ cell.expectedHours = Round2(ExpectedMinutes(OnlyRecord(cell)))
             /\ cell.actualHours = 0
             /\ cell.missingHours = Round2(ExpectedMinutes(OnlyRecord(cell)))
             /\ cell.status = IF ExpectedMinutes(OnlyRecord(cell)) > 0
                              THEN "missing" ELSE "complete"
    /\ \A summary \in Summaries :
          LET rows == {k \in DOMAIN attendance :
                          attendance[k].user_id = summary.userId}
          IN (\A k \in rows : HasShift(attendance[k]) /\ ~HasClockOut(attendance[k]))
             => /\ summary.totalActualHours = 0
                /\ summary.totalExpectedHours =
                       Round2(SumOver(ExpectedMinutes, attendance, rows))
                /\ summary.missingHours = summary.totalExpectedHours

\* C7 witness: a day whose only record is an open session of the 09:00-17:00
\* shift: 8 hours missing
OpenSessionSeen ==
    \E cell \in Cells :
        /\ Len(cell.attendanceRecords) = 1
        /\ OnlyRecord(cell).shift = Shift9to17
        /\ ~HasClockOut(OnlyRecord(cell))
        /\ cell.missingHours = 800 /\ cell.actualHours = 0
        /\ cell.status = "missing"

RowsIn(userId, month) ==
    {i \in DOMAIN db : db[i].user_id = userId /\ InMonth(db[i], month)}

\* C9: every total over several records or days is the full-precision sum
\* rounded once and is never a sum of values already rounded to 2 decimals;
\* stated here for the expected and actual totals of the calendar's
\* monthlyStats, of the grid's per-user rows and of hoursSummary.
TotalsRoundedOnce ==
    /\ (view = "calendar" /\ lastArrived # NoQuery /\ lastArrived.month = currentMonth =>
           LET rows == RowsIn(lastArrived.user, currentMonth)
           IN /\ monthlyStats.totalExpected = Round2(SumOver(ExpectedMinutes, db, rows))
              /\ monthlyStats.totalActual = Round2(SumOver(ActualMinutes, db, rows)))
    /\ \A row \in GridRows :
           LET rows == {i \in DOMAIN db :
                           /\ db[i].user_id = row.userId
                           /\ (db[i].waktu \div MinutesPerDay) \in DOMAIN row.dailyData}
           IN /\ row.totalExpectedHours = Round2(SumOver(ExpectedMinutes, db, rows))
              /\ row.totalActualHours = Round2(SumOver(ActualMinutes, db, rows))
    /\ \A summary \in Summaries :
           LET rows == {k \in DOMAIN attendance : attendance[k].user_id = summary.userId}
           IN /\ summary.totalExpectedHours =
                     Round2(SumOver(ExpectedMinutes, attendance, rows))
              /\ summary.totalActualHours =
                     Round2(SumOver(ActualMinutes, attendance, rows))

\* C10: a response of the attendance query is applied when it arrives, whatever
\* the filters are by then: attendance and hoursSummary are always the result
\* of the query whose data arrived last.
LastResponseWins ==
    view = "reports" /\ lastArrived # NoQuery =>
        /\ attendance = QueryReports(db, lastArrived.flt)
        /\ hoursSummary = calculateHoursSummary(QueryReports(db, lastArrived.flt))

\* C10 witness: every attendance response has arrived, the filters are F2, and
\* attendance is the result of the query for F1, which differs from F2's
StaleReportShown ==
    /\ view = "reports"
    /\ \A k \in DOMAIN pending : pending[k].table # "absensi"
    /\ lastArrived # NoQuery
    /\ lastArrived.flt # filters
    /\ attendance = QueryReports(db, lastArrived.flt)
    /\ attendance # QueryReports(db, filters)
    /\ hoursSummary # calculateHoursSummary(QueryReports(db, filters))

\* C11: a fetch that ends in an error leaves the view's data state as it was
\* before the fetch started: of the steps of a fetch only the arrival of a
\* successful response changes attendance, hoursSummary, gridData, workingDays
\* or calendarData; starting a fetch and receiving an error change neither.
FailedFetchKeepsData ==
    [][lastArrived' = lastArrived =>
          /\ attendance' = attendance
          /\ hoursSummary' = hoursSummary
          /\ gridData' = gridData
          /\ workingDays' = workingDays
          /\ calendarData' = calendarData]_vars

\* C12: every remote call that fails produces exactly one user-visible
\* notification: the error notifications shown so far (the toasts of the
\* destructive variant) are as many as the remote calls that have failed so
\* far, no more and no fewer.
EveryFailureNotifiedOnce == toasts.destructive = failedCalls

\* the rows of db that pass the filters of a report query
RowsPassing(flt) ==
    {i \in DOMAIN db :
        /\ db[i].waktu >= flt.startDate * MinutesPerDay
        /\ db[i].waktu < (flt.endDate + 1) * MinutesPerDay
        /\ (flt.userId \notin {"", "all"} => db[i].user_id = flt.userId)
        /\ (flt.status \notin {"", "all"} => db[i].status = flt.status)
        /\ (flt.method \notin {"", "all"} => db[i].metode = flt.method)}

\* C13: after a successful response is applied, attendance holds exactly the
\* records of that response, each once, and hoursSummary holds exactly one
\* summary per user of those records, computed from them: nothing of an
\* earlier response survives.
ResponseReplacesState ==
    view = "reports" /\ lastArrived # NoQuery =>
        LET rows == RowsPassing(lastArrived.flt)
            usersOf == {db[i].user_id : i \in rows}
        IN /\ Len(attendance) = Cardinality(rows)
           /\ \A k \in DOMAIN attendance : \E i \in rows : attendance[k] = db[i]
           /\ \A i \in rows : \E k \in DOMAIN attendance : attendance[k] = db[i]
           /\ Len(hoursSummary) = Cardinality(usersOf)
           /\ \A u \in usersOf :
                  \E k \in DOMAIN hoursSummary :
                      /\ hoursSummary[k].userId = u
                      /\ hoursSummary[k].workingDays <=
                             Cardinality({i \in rows : db[i].user_id = u})
                      /\ hoursSummary[k].totalExpectedHours =
                             Round2(SumOver(ExpectedMinutes, db,
                                            {i \in rows : db[i].user_id = u}))

\* C13 witness: every query was answered without an error, the response for
\* the changed filters arrived last, and it holds fewer records and fewer
\* users than the response for the initial filters that was applied before it
SmallerResponseReplacedLarger ==
    /\ view = "reports" /\ mounted
    /\ pending = <<>> /\ failedCalls = 0
    /\ filters # InitialFilters
    /\ lastArrived.flt = filters
    /\ Len(attendance) < Cardinality(RowsPassing(InitialFilters))
    /\ Len(hoursSummary) < Cardinality({db[i].user_id : i \in RowsPassing(InitialFilters)})
    /\ Len(attendance) > 0

\* the attendance queries in flight
AttendanceQueriesInFlight ==
    Len(SelectSeq(pending, LAMBDA query : query.table = "absensi"))

\* C14: in AttendanceReports the mount and every change of the filters issue
\* exactly one attendance query each, and no other step issues one (a failed
\* query is not issued again), so that the mount and n changes of the filters
\* have issued n + 1 attendance queries.
OneQueryPerTrigger ==
    [][view = "reports" =>
          IF mounted' # mounted \/ opsLeft' # opsLeft
          THEN AttendanceQueriesInFlight' = AttendanceQueriesInFlight + 1
          ELSE AttendanceQueriesInFlight' <= AttendanceQueriesInFlight]_vars

\* the days of a month that are neither Saturday nor Sunday
WeekdaysOf(month) ==
    {d \in startOfMonth(month)..endOfMonth(month) : getDay(d) \in 1..5}

\* C15: after a successful fetchGridData, gridData has exactly one row per
\* fetched user, in the order fetched, also for users without a record in the
\* month, and the dailyData of each row has an entry for every working day of
\* the month the fetch was made for and for no other date.
OneRowPerUserOneCellPerWorkingDay ==
    view = "grid" /\ lastArrived # NoQuery =>
        /\ Len(gridData) = Len(lastArrived.usersData)
        /\ \A k \in DOMAIN gridData :
               /\ gridData[k].userId = lastArrived.usersData[k].id
               /\ DOMAIN gridData[k].dailyData = WeekdaysOf(lastArrived.month)
               /\ \A d \in DOMAIN gridData[k].dailyData :
                      gridData[k].dailyData[d].date = d

\* C15 witness: a grid of two users, one with a record on a working day of
\* the month and one without any record
RowOfUserWithoutAttendanceSeen ==
    /\ view = "grid" /\ lastArrived # NoQuery
    /\ Len(gridData) = 2
    /\ gridData[1].workingDays > 0
    /\ gridData[2].workingDays = 0
    /\ \A i \in DOMAIN db : db[i].user_id # gridData[2].userId
    /\ Cardinality(DOMAIN gridData[2].dailyData) = 20

\* C16: the working days a fetch of DailyHoursGrid computes for month M, the
\* columns of the grid, are the days of M that are neither Saturday nor
\* Sunday, each once and in ascending order, and no other day.
WorkingDaysAreWeekdays ==
    view = "grid" /\ mounted =>
        /\ {workingDays[k] : k \in DOMAIN workingDays} = WeekdaysOf(currentMonth)
        /\ \A k \in 1..(Len(workingDays) - 1) : workingDays[k] < workingDays[k + 1]
        /\ \A k \in DOMAIN workingDays :
               /\ isSameMonth(workingDays[k], currentMonth)
               /\ getDay(workingDays[k]) # 0 /\ getDay(workingDays[k]) # 6

\* C16 witness: after a change of month the grid has the 22 columns of March
\* 2026, from Monday the 2nd to Tuesday the 31st
MarchColumnsSeen ==
    /\ view = "grid" /\ mounted
    /\ opsLeft < MaxOps
    /\ currentMonth = 2
    /\ Len(workingDays) = 22
    /\ workingDays[1] = startOfMonth(2) + 1
    /\ workingDays[22] = endOfMonth(2)

\* C17: for every month the calendar grid HoursCalendarView builds has 6 rows
\* of 7 day cells, 42 cells: the days of the month and padding days of the
\* adjacent months.
CalendarHasSixRows ==
    view = "calendar" /\ lastArrived # NoQuery =>
        /\ Len(calendarData) = 6 * 7
        /\ \A d \in startOfMonth(lastArrived.month)..endOfMonth(lastArrived.month) :
               \E k \in DOMAIN calendarData : calendarData[k].date = d

\* the rows of db that are their user's only row of their clock-in day, with
\* the given shift, clock-in time of day and clock-out time of day
ExampleRows(shift, clockIn, clockOut) ==
    {i \in DOMAIN db :
        /\ db[i].shift = shift
        /\ db[i].waktu % MinutesPerDay = clockIn
        /\ db[i].clock_out_time # Null
        /\ db[i].clock_out_time % MinutesPerDay = clockOut
        /\ RowsOn(db[i].user_id, db[i].waktu \div MinutesPerDay) = {i}}

\* the DayData of a date in calendarData
CellsOf(date) == {cell \in Cells : cell.date = date}

\* C18: a day whose single record has the shift 09:00-17:00, clock-in 09:05
\* and clock-out 16:40 has expectedHours = 8, actualHours = 7.58, missingHours
\* = 0.42, overtimeHours = 0 and status 'missing'.
DayShiftExample ==
    /\ view = "calendar" /\ lastArrived # NoQuery =>
           \A i \in ExampleRows(Shift9to17, 9 * 60 + 5, 16 * 60 + 40) :
               db[i].user_id = lastArrived.user /\ InMonth(db[i], lastArrived.month) =>
                   /\ CellsOf(db[i].waktu \div MinutesPerDay) # {}
                   /\ \A cell \in CellsOf(db[i].waktu \div MinutesPerDay) :
                          /\ cell.expectedHours = 800
                          /\ cell.actualHours = 758
                          /\ cell.missingHours = 42
                          /\ cell.overtimeHours = 0
                          /\ cell.status = "missing"
                          /\ cell.hasAttendance
    /\ view = "grid" /\ lastArrived # NoQuery =>
           \A i \in ExampleRows(Shift9to17, 9 * 60 + 5, 16 * 60 + 40) :
               \A row \in GridRows :
                   (/\ row.userId = db[i].user_id
                    /\ (db[i].waktu \div MinutesPerDay) \in DOMAIN row.dailyData) =>
                       LET cell == row.dailyData[db[i].waktu \div MinutesPerDay]
                       IN /\ cell.expectedHours = 800
                          /\ cell.actualHours = 758
                          /\ cell.missingHours = 42
                          /\ cell.hasAttendance

\* C18 witness: the calendar shows the day of such a record
DayShiftExampleSeen ==
    /\ view = "calendar" /\ lastArrived # NoQuery
    /\ \E i \in ExampleRows(Shift9to17, 9 * 60 + 5, 16 * 60 + 40) :
           /\ db[i].user_id = lastArrived.user
           /\ \E cell \in Cells :
                  /\ cell.date = db[i].waktu \div MinutesPerDay
                  /\ cell.attendanceRecords = <<db[i]>>

\* C19: a day whose single record has the overnight shift 22:00-06:00,
\* clock-in 22:00 and clock-out 06:00 of the next day has, on the day of the
\* clock-in, expectedHours = 8, actualHours = 8, missingHours = 0,
\* overtimeHours = 0 and status 'complete'.
OvernightShiftExample ==
    view = "calendar" /\ lastArrived # NoQuery =>
        \A i \in ExampleRows(ShiftNight, 22 * 60, 6 * 60) :
            (/\ db[i].user_id = lastArrived.user
             /\ InMonth(db[i], lastArrived.month)
             /\ db[i].clock_out_time \div MinutesPerDay = db[i].waktu \div MinutesPerDay + 1) =>
                /\ CellsOf(db[i].waktu \div MinutesPerDay) # {}
                /\ \A cell \in CellsOf(db[i].waktu \div MinutesPerDay) :
                       /\ cell.expectedHours = 800
                       /\ cell.actualHours = 800
                       /\ cell.missingHours = 0
                       /\ cell.overtimeHours = 0
                       /\ cell.status = "complete"
                       /\ cell.hasAttendance

\* C19 witness: the calendar shows the clock-in day of such a record, and the
\* day of its clock-out has no attendance
OvernightShiftExampleSeen ==
    /\ view = "calendar" /\ lastArrived # NoQuery
    /\ \E i \in ExampleRows(ShiftNight, 22 * 60, 6 * 60) :
           /\ db[i].user_id = lastArrived.user
           /\ db[i].clock_out_time \div MinutesPerDay = db[i].waktu \div MinutesPerDay + 1
           /\ \E cell \in Cells :
                  /\ cell.date = db[i].waktu \div MinutesPerDay
                  /\ cell.attendanceRecords = <<db[i]>>
           /\ \E cell \in Cells :
                  /\ cell.date = db[i].waktu \div MinutesPerDay + 1
                  /\ ~cell.hasAttendance

\* Delimited text read back.  A field that starts with a double quote runs to
\* its closing double quote, commas and line breaks included, and a doubled
\* double quote inside it is one double quote of the value; a comma ends a
\* field and a line break ends a record.  The reader is at the start of a
\* field, in an unquoted field (or behind a closing quote), in a quoted field,
\* or behind a double quote met in a quoted field.
ReaderModes == {"start", "plain", "quoted", "quoteSeen"}

\* the reader's step on one piece of the text: its next mode and whether the
\* piece ended a field or a record
ReaderStep(mode, piece) ==
    IF mode = "quoted"
    THEN [mode |-> IF piece = Quote THEN "quoteSeen" ELSE "quoted", ends |-> "none"]
    ELSE IF piece = Quote
    THEN [mode |-> IF mode = "plain" THEN "plain" ELSE "quoted", ends |-> "none"]
    ELSE IF piece = Comma THEN [mode |-> "start", ends |-> "field"]
    ELSE IF piece = LineBreak THEN [mode |-> "start", ends |-> "record"]
    ELSE [mode |-> "plain", ends |-> "none"]

\* what reading text[from..to] does, for each mode the reader may be in at
\* from: the mode it ends in, the field counts of the records it completed
\* and the fields completed in the record left open
RECURSIVE ReaderEffect(_, _, _)
ReaderEffect(text, from, to) ==
    IF from = to
    THEN [m \in ReaderModes |->
             LET step == ReaderStep(m, text[from])
             IN [mode |-> step.mode,
                 records |-> IF step.ends = "record" THEN <<1>> ELSE <<>>,
                 open |-> IF step.ends = "field" THEN 1 ELSE 0]]
    ELSE LET mid == (from + to) \div 2
             left == ReaderEffect(text, from, mid)
             right == ReaderEffect(text, mid + 1, to)
         IN [m \in ReaderModes |->
                LET a == left[m]
                    b == right[a.mode]
                IN IF b.records = <<>>
                   THEN [mode |-> b.mode, records |-> a.records,
                         open |-> a.open + b.open]
                   ELSE [mode |-> b.mode,
                         records |-> a.records \o <<a.open + b.records[1]>>
                                         \o Tail(b.records),
                         open |-> b.open]]

\* the number of fields of each record of a text
ReadCsv(text) ==
    IF text = <<>> THEN <<1>>
    ELSE LET effect == ReaderEffect(text, 1, Len(text))["start"]
         IN Append(effect.records, effect.open + 1)

\* C20: the text an export emits has one header row and exactly one row per
\* record or user held in state when it was made, every field wrapped in
\* double quotes, and every row has as many fields as the header: 7 for the
\* attendance detail, 8 for the hours summary, 3 + the number of working-day
\* columns for the daily grid.
CsvRowsAndFields ==
    download # NoDownload =>
        LET counts == ReadCsv(download.content)
            width == IF download.kind = "attendance" THEN 7
                     ELSE IF download.kind = "hours" THEN 8
                     ELSE 3 + download.columns
        IN /\ Len(counts) = 1 + download.records
           /\ \A k \in DOMAIN counts : counts[k] = width
           /\ download.content[1] = Quote
           /\ download.content[Len(download.content)] = Quote

\* C21: every make-up request the dialog creates is inserted with status
\* 'pending', with the date and the reason of the form and with bukti_url null
\* when the evidence field is empty (the URL typed otherwise); the rows of
\* makeup_requests are only ever extended by such an inserted row, no row is
\* changed or removed.
MakeupInsertsPendingOnly ==
    [][view = "makeup" =>
          /\ Len(makeupRequests') >= Len(makeupRequests)
          /\ \A k \in DOMAIN makeupRequests : makeupRequests'[k] = makeupRequests[k]
          /\ \A k \in DOMAIN makeupRequests' :
                 k > Len(makeupRequests) =>
                     /\ makeupRequests'[k].status = "pending"
                     /\ makeupRequests'[k].user_id = DialogUserId
                     /\ \E i \in DOMAIN pending : pending[i].row = makeupRequests'[k]
          /\ Len(pending') > Len(pending) =>
                 LET row == pending'[Len(pending')].row
                 IN /\ row.status = "pending"
                    /\ row.tanggal_absen = formData.tanggal_absen
                    /\ row.alasan = formData.alasan
                    /\ (formData.bukti_url = "" => row.bukti_url = NullText)
                    /\ (formData.bukti_url # "" => row.bukti_url = formData.bukti_url)]_vars

\* C21 witness: two requests were inserted one after the other, the first
\* without evidence (bukti_url null) and the second with a URL, both pending
TwoRequestsInserted ==
    /\ view = "makeup"
    /\ Len(makeupRequests) = 2
    /\ makeupRequests[1].bukti_url = NullText
    /\ makeupRequests[2].bukti_url = "https://example.com/document.pdf"
    /\ makeupRequests[1].status = "pending" /\ makeupRequests[2].status = "pending"

\* C22: in DailyHoursGrid, whenever loading is false, every row of gridData
\* has a dailyData entry for every date of workingDays, so that the lookup
\* user.dailyData[dateStr] of the table render is never undefined.
GridCellsDefined ==
    view = "grid" /\ mounted /\ ~loading =>
        \A row \in GridRows :
            \A c \in DOMAIN workingDays : workingDays[c] \in DOMAIN row.dailyData

\* C23: in AttendanceReports loading is true in every state in which at least
\* one attendance query is still in flight: the arrival of the first of two
\* overlapping responses does not make loading false while the other query is
\* pending.
LoadingWhileQueryInFlight ==
    view = "reports" /\ mounted /\ AttendanceQueriesInFlight > 0 => loading

\* The views when every issued query is eventually answered: the mount effects
\* run, and a query in flight gets its response.
LiveSpec ==
    /\ Spec
    /\ WF_vars(CalMount)
    /\ WF_vars(\E i \in 1..Len(pending), outcome \in {"ok", "empty", "error"} :
                   CalUsersResponse(i, outcome))
    /\ WF_vars(\E i \in 1..Len(pending), outcome \in {"ok", "error"} :
                   CalAttendanceResponse(i, outcome))

\* C24: in HoursCalendarView, provided every issued query is eventually
\* answered, loading eventually becomes false after the component mounts, for
\* every initial selectedUserId and every outcome of the profiles query.
CalendarLoadingEnds ==
    view = "calendar" => <>(mounted /\ ~loading)

\* the rows of db of one user, in the order of waktu
RecordsOf(userId) == SelectSeq(db, LAMBDA record : record.user_id = userId)

\* every record of the sequence was clocked in on a working day of the month
OnWorkingDays(records, month) ==
    \A k \in DOMAIN records : FormatDate(records[k].waktu) \in WeekdaysOf(month)

\* C25: for one user and one set of records, all clocked in on working days of
\* one month, the grid's totalMissingHours is at least calculateHoursSummary's
\* missingHours for the same records, and the two are equal whenever no day
\* has more actual than expected hours.
GridMissingAtLeastSummaryMissing ==
    view = "grid" /\ lastArrived # NoQuery =>
        \A row \in GridRows :
            LET records == RecordsOf(row.userId)
                summary == calculateHoursSummary(records)
            IN (records # <<>> /\ OnWorkingDays(records, lastArrived.month)) =>
                   /\ Len(summary) = 1
                   /\ summary[1].userId = row.userId
                   /\ row.totalMissingHours >= summary[1].missingHours
                   /\ (\A d \in DOMAIN row.dailyData :
                           row.dailyData[d].actualHours <= row.dailyData[d].expectedHours)
                      => row.totalMissingHours = summary[1].missingHours

\* C25 witness: a user with 25 minutes missing on Monday and 15 minutes of
\* overtime on Tuesday: the grid totals 0.42 missing hours, the summary 0.17
GridMissingExceedsSummarySeen ==
    /\ view = "grid" /\ lastArrived # NoQuery
    /\ \E row \in GridRows :
           /\ Len(RecordsOf(row.userId)) = 2
           /\ OnWorkingDays(RecordsOf(row.userId), lastArrived.month)
           /\ row.totalMissingHours = 42
           /\ calculateHoursSummary(RecordsOf(row.userId))[1].missingHours = 17
           /\ calculateHoursSummary(RecordsOf(row.userId))[1].overtimeHours = 0

\* C26: for every pair of times of day calculateHoursDifference returns a
\* value in [0 h, 24 h), 0 when start = end; a record's actual hours are that
\* value for the times of day of its clock-in and clock-out, whatever the
\* dates, so that a record contributes less than 24 actual hours however long
\* the time from clock-in to clock-out really is.
HoursDifferenceWithinOneDay ==
    view = "hours" /\ mounted =>
        /\ hd.cal >= 0 /\ hd.cal < MinutesPerDay
        /\ hd.grid >= 0 /\ hd.grid < MinutesPerDay
        /\ hd.rep >= 0 /\ hd.rep < MinutesPerDay
        /\ (hd.startTime = hd.endTime => hd.cal = 0 /\ hd.grid = 0 /\ hd.rep = 0)
        /\ hd.actualCal = hd.cal /\ hd.actualCal < MinutesPerDay
        /\ hd.actualGrid = hd.grid /\ hd.actualGrid < MinutesPerDay
        /\ hd.actualRep = hd.rep /\ hd.actualRep < MinutesPerDay

\* C26 witness: a record clocked in at 09:05 and out at 16:40 of the next day,
\* 31 h 35 min later, counted as 7 h 35 min
LongSessionCountedWithinOneDay ==
    /\ view = "hours" /\ mounted /\ hd.days = 1
    /\ hd.startTime = 9 * 60 + 5 /\ hd.endTime = 16 * 60 + 40
    /\ hd.actualCal = 7 * 60 + 35
    /\ hd.actualGrid = 7 * 60 + 35
    /\ hd.actualRep = 7 * 60 + 35

\* C27: in the Auth page isLoading is true exactly while a signIn or signUp
\* call is in flight: it is false before the first submit and false again once
\* an attempt has completed, whatever its outcome; as the submit buttons are
\* disabled while isLoading, at most one attempt is in flight.
AuthLoadingWhileInFlight ==
    view = "auth" =>
        /\ isLoading = (pending # <<>>)
        /\ Len(pending) <= 1

\* C27 witness: two attempts have completed, one that failed and one that
\* succeeded, and isLoading is false
TwoAuthAttemptsCompleted ==
    /\ view = "auth"
    /\ toasts.destructive = 1 /\ toasts.default = 1
    /\ pending = <<>>
    /\ ~isLoading

\* C28: the completion of a submit of MakeupRequestDialog whose insert
\* succeeded sets formData to empty fields, closes the dialog and calls
\* onSuccess once; the completion of a submit whose insert returned an error
\* or threw changes neither open nor formData and does not call onSuccess; in
\* every outcome loading is false afterwards.
SubmitOutcomeEffects ==
    [][view = "makeup" /\ Len(pending') < Len(pending) =>
          /\ loading' = FALSE
          /\ IF failedCalls' = failedCalls
             THEN /\ Len(makeupRequests') = Len(makeupRequests) + 1
                  /\ formData' = EmptyForm
                  /\ open' = FALSE
                  /\ onSuccessCalls' = onSuccessCalls + 1
             ELSE /\ makeupRequests' = makeupRequests
                  /\ open' = open
                  /\ formData' = formData
                  /\ onSuccessCalls' = onSuccessCalls]_vars

\* C28 witness: a submit failed, the dialog stayed open with its fields, and
\* the submit made again succeeded: one row, one call of onSuccess, the form
\* empty and the dialog closed
FailedThenSuccessfulSubmit ==
    /\ view = "makeup"
    /\ failedCalls = 1 /\ toasts.destructive = 1
    /\ Len(makeupRequests) = 1 /\ onSuccessCalls = 1
    /\ makeupRequests[1].alasan = "sakit"
    /\ formData = EmptyForm /\ ~open /\ ~loading
    /\ pending = <<>>

\* the hours a user is short on a date: max(0, expected - actual) over the
\* rows of db the user clocked in on that date, in minutes
MissingMinutesOn(userId, date) ==
    Max(0, SumOver(ExpectedMinutes, db, RowsOn(userId, date))
           - SumOver(ActualMinutes, db, RowsOn(userId, date)))

RECURSIVE MissingMinutesOver(_, _)
MissingMinutesOver(userId, dates) ==
    IF dates = {} THEN 0
    ELSE LET d == CHOOSE d \in dates : TRUE
         IN MissingMinutesOn(userId, d) + MissingMinutesOver(userId, dates \ {d})

\* C29: in DailyHoursGrid a record clocked in on a Saturday or Sunday is in no
\* cell and in none of its user's totals: totalExpectedHours, totalActualHours
\* and totalMissingHours are sums over the working days of the month only, and
\* workingDays is the number of working days with at least one record, with
\* or without a shift.
WeekendRecordsNotCounted ==
    view = "grid" /\ lastArrived # NoQuery =>
        \A row \in GridRows :
            LET days == WeekdaysOf(lastArrived.month)
                rows == {i \in DOMAIN db :
                            /\ db[i].user_id = row.userId
                            /\ (db[i].waktu \div MinutesPerDay) \in days}
            IN /\ \A d \in DOMAIN row.dailyData : ~isWeekend(d)
               /\ row.totalExpectedHours = Round2(SumOver(ExpectedMinutes, db, rows))
               /\ row.totalActualHours = Round2(SumOver(ActualMinutes, db, rows))
               /\ row.totalMissingHours = Round2(MissingMinutesOver(row.userId, days))
               /\ row.workingDays =
                      Cardinality({d \in days : RowsOn(row.userId, d) # {}})

\* C29 witness: a user with a Saturday record of the 09:00-17:00 shift and a
\* Monday record without a shift: one working day, no expected hours
SaturdayRecordNotCounted ==
    /\ view = "grid" /\ lastArrived # NoQuery
    /\ \E row \in GridRows :
           /\ \E i \in DOMAIN db :
                  /\ db[i].user_id = row.userId
                  /\ isWeekend(db[i].waktu \div MinutesPerDay)
                  /\ InMonth(db[i], lastArrived.month)
                  /\ db[i].shift = Shift9to17 /\ HasClockOut(db[i])
           /\ \E i \in DOMAIN db :
                  /\ db[i].user_id = row.userId
                  /\ ~isWeekend(db[i].waktu \div MinutesPerDay)
                  /\ InMonth(db[i], lastArrived.month)
                  /\ ~HasShift(db[i])
           /\ row.workingDays = 1
           /\ row.totalExpectedHours = 0 /\ row.totalActualHours = 0
           /\ row.totalMissingHours = 0

\* C30: in calculateHoursSummary a user's workingDays is the number of the
\* user's records that carry a shift with a start and an end time, one per
\* record; averageHoursPerDay is totalActualHours / workingDays and efficiency
\* is 100 * totalActualHours / totalExpectedHours, each rounded to 2 decimals
\* (halves up), and 0 when its divisor is 0.  A and E are the unrounded totals
\* in minutes, the stored values are in hundredths.
SummaryCountsAndRatios ==
    view = "reports" /\ lastArrived # NoQuery =>
        \A summary \in Summaries :
            LET rows == {k \in DOMAIN attendance :
                            attendance[k].user_id = summary.userId}
                n == Cardinality({k \in rows : HasShift(attendance[k])})
                A == SumOver(ActualMinutes, attendance, rows)
                E == SumOver(ExpectedMinutes, attendance, rows)
            IN /\ summary.workingDays = n
               /\ (n = 0 => summary.averageHoursPerDay = 0)
               /\ (n > 0 =>
                      /\ 6 * n * summary.averageHoursPerDay <= 10 * A + 3 * n
                      /\ 10 * A + 3 * n < 6 * n * (summary.averageHoursPerDay + 1))
               /\ (E = 0 => summary.efficiency = 0)
               /\ (E > 0 =>
                      /\ 2 * E * summary.efficiency <= 20000 * A + E
                      /\ 20000 * A + E < 2 * E * (summary.efficiency + 1))

\* C30 witness: a user with two records of the 09:00-17:00 shift on one day,
\* both 7 h 35 min long: workingDays 2, average 7.58, efficiency 94.79 %
TwoRecordsOneDaySummarised ==
    /\ view = "reports" /\ lastArrived # NoQuery
    /\ \E summary \in Summaries :
           /\ summary.workingDays = 2
           /\ Cardinality({attendance[k].waktu \div MinutesPerDay :
                  k \in {j \in DOMAIN attendance :
                            attendance[j].user_id = summary.userId}}) = 1
           /\ summary.totalExpectedHours = 1600
           /\ summary.totalActualHours = 1517
           /\ summary.averageHoursPerDay = 758
           /\ summary.efficiency = 9479

====
